---------------------------- MODULE Spec2Model ----------------------------
(***************************************************************************)
(* Farm-Guru retrieval-and-synthesis pipeline.                             *)
(*                                                                         *)
(*   backend/app/retriever.py     DocumentRetriever (three tiers)          *)
(*   backend/app/llm.py           LLMClient (remote call, deterministic    *)
(*                                fallback)                                *)
(*   backend/app/routes/query.py  query_assistant, the fallback generators *)
(*                                and ensure_response_structure            *)
(*                                                                         *)
(* Python values are tagged records [kind, val]; a str is the sequence of  *)
(* its characters, a dict is a function from its keys to values, a list is *)
(* a sequence of values.  A float is held in hundredths, with the number   *)
(* of units in the last place it lies above that decimal (ulp).            *)
(***************************************************************************)
EXTENDS Integers, Sequences, FiniteSets, TLC

VARIABLES
    \* ---- DocumentRetriever and its environment
    globalModel,    \* app.main.model: None until the startup hook loads it
    model,          \* self.model
    documents,      \* self.documents
    embeddings,     \* self.embeddings: None or one vector per encoded text
    pc,             \* position of the retrieve call in progress
    query_text,     \* argument of the retrieve call in progress
    k,              \* argument of the retrieve call in progress
    depth,          \* number of nested self.retrieve frames below the outer one
    result,         \* value returned by the retrieve call
    trace,          \* tiers entered by the outermost call, with their outcome
    passLog,        \* corpus embedding passes attempted in the call at hand
    \* ---- app.config and LLMClient
    DEMO_MODE,      \* app.config.DEMO_MODE
    HF_API_KEY,     \* app.config.HF_API_KEY (self.api_key)
    HF_MODEL,       \* app.config.HF_MODEL (self.model)
    spc,            \* position of the synthesize_answer call in progress
    prompt_text,    \* argument of synthesize_answer
    retrieved_docs, \* argument of synthesize_answer
    image_context,  \* argument of synthesize_answer
    attempt,        \* loop variable of query_huggingface
    hfLog,          \* requests posted by query_huggingface, with their outcome
    hf_response,    \* value returned by query_huggingface
    response,       \* the response mapping in hand (or the exception raised)
    \* ---- ensure_response_structure called on its own
    given,          \* the candidate mapping as it was before the call
    candidate,      \* the caller's mapping object (the function works in place)
    normalized,     \* value returned by the last call
    previous,       \* value returned by the call before the last
    passes,         \* number of calls made on the candidate
    \* ---- query_assistant
    request,        \* the QueryRequest being handled
    qpc,            \* position of query_assistant
    reply,          \* what the caller receives
    origin,         \* which generator produced the answer in hand
    raisedAt,       \* the stages of this request that raised
    stages,         \* the steps of query_assistant taken for this request
    \* ---- several retrieve calls on the one global retriever
    calls,          \* per caller: position, arguments and locals of its call
    \* ---- the serving process (one event loop)
    loop,           \* the request whose handler the event loop is running, or 0
    inflight        \* per request: position of its handler and its waits

retrVars == <<globalModel, model, documents, embeddings, pc, query_text, k,
              depth, result, trace, passLog>>

configVars == <<DEMO_MODE, HF_API_KEY, HF_MODEL>>

callVars == <<prompt_text, retrieved_docs, image_context, hf_response,
              response>>

hfVars == <<spc, attempt, hfLog>>

normVars == <<given, candidate, normalized, previous, passes>>

queryVars == <<request, qpc, reply, origin, raisedAt, stages>>

concVars == <<calls, loop, inflight>>

vars == <<retrVars, configVars, callVars, hfVars, normVars, queryVars,
          concVars>>

\* what the retriever's steps leave alone
outsideRetriever == <<configVars, callVars, hfVars, normVars, queryVars,
                      concVars>>

-----------------------------------------------------------------------------
(* Bounds of the model *)

MaxDocs == 2
MaxK == 2

-----------------------------------------------------------------------------
(* Python values *)

None == [kind |-> "none", val |-> <<>>]
PyStr(s) == [kind |-> "str", val |-> s]
PyInt(n) == [kind |-> "int", val |-> n]
PyFloat(h) == [kind |-> "float", val |-> h, ulp |-> 0]
PyList(l) == [kind |-> "list", val |-> l]
PyDict(d) == [kind |-> "dict", val |-> d]

\* dict.get(key, default) on the function d
Get(d, key, default) == IF key \in DOMAIN d THEN d[key] ELSE default

\* d[key] = v on the function d
Put(d, key, v) == [x \in (DOMAIN d) \cup {key} |-> IF x = key THEN v ELSE d[x]]

\* the value of a number on the scale of hundredths
Hundredths(v) == IF v.kind = "int" THEN v.val * 100 ELSE v.val

Min(a, b) == IF a <= b THEN a ELSE b
Max(a, b) == IF a >= b THEN a ELSE b

-----------------------------------------------------------------------------
(* str operations *)

UpperChars == <<"A","B","C","D","E","F","G","H","I","J","K","L","M",
                "N","O","P","Q","R","S","T","U","V","W","X","Y","Z">>
LowerChars == <<"a","b","c","d","e","f","g","h","i","j","k","l","m",
                "n","o","p","q","r","s","t","u","v","w","x","y","z">>

LowerChar(c) ==
    IF \E i \in DOMAIN UpperChars : UpperChars[i] = c
    THEN LowerChars[CHOOSE i \in DOMAIN UpperChars : UpperChars[i] = c]
    ELSE c

\* str.lower()
Lower(s) == SubSeq([i \in 1..Len(s) |-> LowerChar(s[i])], 1, Len(s))

IsSpace(c) == c \in {" ", "\n", "\t"}

\* set(str.split()): the maximal runs of non-whitespace characters
WordSet(s) ==
    { SubSeq(s, i, j) : <<i, j>> \in
        { p \in (1..Len(s)) \X (1..Len(s)) :
            /\ p[1] <= p[2]
            /\ \A x \in p[1]..p[2] : ~IsSpace(s[x])
            /\ (p[1] = 1 \/ IsSpace(s[p[1] - 1]))
            /\ (p[2] = Len(s) \/ IsSpace(s[p[2] + 1])) } }

\* s[:n]
Prefix(s, n) == SubSeq(s, 1, Min(n, Len(s)))


-----------------------------------------------------------------------------
(* The literal texts of the program, character by character.  A character  *)
(* outside ASCII is written as its code point, uXXXX.                       *)

\* llm.py: the literal texts of the deterministic fallback
LlmText ==
    [
      \* Agricultural Resource
      agri_resource |->
        <<"A","g","r","i","c","u","l","t","u","r","a","l"," ","R","e","s",
          "o","u","r","c","e">>,
      \* ...
      ellipsis |->
        <<".",".",".">>,
      \*  
      space |->
        <<" ">>,
      \* Based on the uploaded image showing 
      img_issue_pre |->
        <<"B","a","s","e","d"," ","o","n"," ","t","h","e"," ","u","p","l",
          "o","a","d","e","d"," ","i","m","a","g","e"," ","s","h","o","w",
          "i","n","g"," ">>,
      \* , I can see potential issues that may require attention. 
      img_issue_mid |->
        <<","," ","I"," ","c","a","n"," ","s","e","e"," ","p","o","t","e",
          "n","t","i","a","l"," ","i","s","s","u","e","s"," ","t","h","a",
          "t"," ","m","a","y"," ","r","e","q","u","i","r","e"," ","a","t",
          "t","e","n","t","i","o","n","."," ">>,
      \* Please consult with a local agricultural expert for proper diagnosis a
      img_issue_default |->
        <<"P","l","e","a","s","e"," ","c","o","n","s","u","l","t"," ","w",
          "i","t","h"," ","a"," ","l","o","c","a","l"," ","a","g","r","i",
          "c","u","l","t","u","r","a","l"," ","e","x","p","e","r","t"," ",
          "f","o","r"," ","p","r","o","p","e","r"," ","d","i","a","g","n",
          "o","s","i","s"," ","a","n","d"," ","t","r","e","a","t","m","e",
          "n","t"," ","r","e","c","o","m","m","e","n","d","a","t","i","o",
          "n","s",".">>,
      \* From the uploaded image of 
      img_generic_pre |->
        <<"F","r","o","m"," ","t","h","e"," ","u","p","l","o","a","d","e",
          "d"," ","i","m","a","g","e"," ","o","f"," ">>,
      \* , 
      img_generic_mid |->
        <<","," ">>,
      \* this appears to be a healthy crop. Continue with regular care and moni
      img_generic_default |->
        <<"t","h","i","s"," ","a","p","p","e","a","r","s"," ","t","o"," ",
          "b","e"," ","a"," ","h","e","a","l","t","h","y"," ","c","r","o",
          "p","."," ","C","o","n","t","i","n","u","e"," ","w","i","t","h",
          " ","r","e","g","u","l","a","r"," ","c","a","r","e"," ","a","n",
          "d"," ","m","o","n","i","t","o","r","i","n","g",".">>,
      \* For irrigation timing, consider soil moisture, weather conditions, and
      irrigation_base |->
        <<"F","o","r"," ","i","r","r","i","g","a","t","i","o","n"," ","t",
          "i","m","i","n","g",","," ","c","o","n","s","i","d","e","r"," ",
          "s","o","i","l"," ","m","o","i","s","t","u","r","e",","," ","w",
          "e","a","t","h","e","r"," ","c","o","n","d","i","t","i","o","n",
          "s",","," ","a","n","d"," ","c","r","o","p"," ","g","r","o","w",
          "t","h"," ","s","t","a","g","e",".">>,
      \* Check soil moisture at 6-inch depth and irrigate when it feels dry.
      irrigation_default |->
        <<"C","h","e","c","k"," ","s","o","i","l"," ","m","o","i","s","t",
          "u","r","e"," ","a","t"," ","6","-","i","n","c","h"," ","d","e",
          "p","t","h"," ","a","n","d"," ","i","r","r","i","g","a","t","e",
          " ","w","h","e","n"," ","i","t"," ","f","e","e","l","s"," ","d",
          "r","y",".">>,
      \* For pest and disease management, early identification and integrated p
      pest_base |->
        <<"F","o","r"," ","p","e","s","t"," ","a","n","d"," ","d","i","s",
          "e","a","s","e"," ","m","a","n","a","g","e","m","e","n","t",",",
          " ","e","a","r","l","y"," ","i","d","e","n","t","i","f","i","c",
          "a","t","i","o","n"," ","a","n","d"," ","i","n","t","e","g","r",
          "a","t","e","d"," ","p","e","s","t"," ","m","a","n","a","g","e",
          "m","e","n","t"," ","a","r","e"," ","k","e","y",".">>,
      \* Monitor crops regularly and consult local agricultural extension servi
      pest_default |->
        <<"M","o","n","i","t","o","r"," ","c","r","o","p","s"," ","r","e",
          "g","u","l","a","r","l","y"," ","a","n","d"," ","c","o","n","s",
          "u","l","t"," ","l","o","c","a","l"," ","a","g","r","i","c","u",
          "l","t","u","r","a","l"," ","e","x","t","e","n","s","i","o","n",
          " ","s","e","r","v","i","c","e","s"," ","f","o","r"," ","s","p",
          "e","c","i","f","i","c"," ","t","r","e","a","t","m","e","n","t",
          "s",".">>,
      \* Planting timing depends on local climate, soil conditions, and crop va
      planting_base |->
        <<"P","l","a","n","t","i","n","g"," ","t","i","m","i","n","g"," ",
          "d","e","p","e","n","d","s"," ","o","n"," ","l","o","c","a","l",
          " ","c","l","i","m","a","t","e",","," ","s","o","i","l"," ","c",
          "o","n","d","i","t","i","o","n","s",","," ","a","n","d"," ","c",
          "r","o","p"," ","v","a","r","i","e","t","y",".">>,
      \* Consult your local agricultural calendar and weather forecasts for opt
      planting_default |->
        <<"C","o","n","s","u","l","t"," ","y","o","u","r"," ","l","o","c",
          "a","l"," ","a","g","r","i","c","u","l","t","u","r","a","l"," ",
          "c","a","l","e","n","d","a","r"," ","a","n","d"," ","w","e","a",
          "t","h","e","r"," ","f","o","r","e","c","a","s","t","s"," ","f",
          "o","r"," ","o","p","t","i","m","a","l"," ","t","i","m","i","n",
          "g",".">>,
      \* Market prices fluctuate based on supply, demand, and seasonal factors.
      market_base |->
        <<"M","a","r","k","e","t"," ","p","r","i","c","e","s"," ","f","l",
          "u","c","t","u","a","t","e"," ","b","a","s","e","d"," ","o","n",
          " ","s","u","p","p","l","y",","," ","d","e","m","a","n","d",",",
          " ","a","n","d"," ","s","e","a","s","o","n","a","l"," ","f","a",
          "c","t","o","r","s",".">>,
      \* Check local mandi prices and consider storage options during peak harv
      market_default |->
        <<"C","h","e","c","k"," ","l","o","c","a","l"," ","m","a","n","d",
          "i"," ","p","r","i","c","e","s"," ","a","n","d"," ","c","o","n",
          "s","i","d","e","r"," ","s","t","o","r","a","g","e"," ","o","p",
          "t","i","o","n","s"," ","d","u","r","i","n","g"," ","p","e","a",
          "k"," ","h","a","r","v","e","s","t",".">>,
      \* Based on agricultural best practices: 
      generic_pre |->
        <<"B","a","s","e","d"," ","o","n"," ","a","g","r","i","c","u","l",
          "t","u","r","a","l"," ","b","e","s","t"," ","p","r","a","c","t",
          "i","c","e","s",":"," ">>,
      \* For specific agricultural advice, I recommend consulting with your loc
      referral |->
        <<"F","o","r"," ","s","p","e","c","i","f","i","c"," ","a","g","r",
          "i","c","u","l","t","u","r","a","l"," ","a","d","v","i","c","e",
          ","," ","I"," ","r","e","c","o","m","m","e","n","d"," ","c","o",
          "n","s","u","l","t","i","n","g"," ","w","i","t","h"," ","y","o",
          "u","r"," ","l","o","c","a","l"," ","K","r","i","s","h","i"," ",
          "V","i","g","y","a","n"," ","K","e","n","d","r","a"," ","(","K",
          "V","K",")"," ","o","r"," ","a","g","r","i","c","u","l","t","u",
          "r","a","l"," ","e","x","t","e","n","s","i","o","n"," ","o","f",
          "f","i","c","e","r"," ","w","h","o"," ","c","a","n"," ","p","r",
          "o","v","i","d","e"," ","g","u","i","d","a","n","c","e"," ","t",
          "a","i","l","o","r","e","d"," ","t","o"," ","y","o","u","r"," ",
          "l","o","c","a","l"," ","c","o","n","d","i","t","i","o","n","s",
          " ","a","n","d"," ","c","r","o","p","s",".">>,
      \* ai
      mode_ai |->
        <<"a","i">>,
      \* demo
      mode_demo |->
        <<"d","e","m","o">>,
      \* fallback
      mode_fallback |->
        <<"f","a","l","l","b","a","c","k">> ]

\* llm.py: the keyword lists of the classifiers and the validator
LlmWords ==
    [
      \* disease | pest
      visual_problem |->
        << <<"d","i","s","e","a","s","e">>,
           <<"p","e","s","t">> >>,
      \* irrigate | water | rain | weather
      irrigation |->
        << <<"i","r","r","i","g","a","t","e">>,
           <<"w","a","t","e","r">>,
           <<"r","a","i","n">>,
           <<"w","e","a","t","h","e","r">> >>,
      \* pest | disease | insect | fungus
      pest |->
        << <<"p","e","s","t">>,
           <<"d","i","s","e","a","s","e">>,
           <<"i","n","s","e","c","t">>,
           <<"f","u","n","g","u","s">> >>,
      \* plant | sow | seed | timing
      planting |->
        << <<"p","l","a","n","t">>,
           <<"s","o","w">>,
           <<"s","e","e","d">>,
           <<"t","i","m","i","n","g">> >>,
      \* price | market | sell | buy
      market |->
        << <<"p","r","i","c","e">>,
           <<"m","a","r","k","e","t">>,
           <<"s","e","l","l">>,
           <<"b","u","y">> >>,
      \* disease | pest | problem
      act_problem |->
        << <<"d","i","s","e","a","s","e">>,
           <<"p","e","s","t">>,
           <<"p","r","o","b","l","e","m">> >>,
      \* irrigate | water
      act_irrigation |->
        << <<"i","r","r","i","g","a","t","e">>,
           <<"w","a","t","e","r">> >>,
      \* plant | sow | seed
      act_planting |->
        << <<"p","l","a","n","t">>,
           <<"s","o","w">>,
           <<"s","e","e","d">> >>,
      \* market | price | sell
      act_market |->
        << <<"m","a","r","k","e","t">>,
           <<"p","r","i","c","e">>,
           <<"s","e","l","l">> >>,
      \* answer | confidence | actions | sources
      required_fields |->
        << <<"a","n","s","w","e","r">>,
           <<"c","o","n","f","i","d","e","n","c","e">>,
           <<"a","c","t","i","o","n","s">>,
           <<"s","o","u","r","c","e","s">> >> ]

\* llm.py: the action lists of _generate_actions
LlmActions ==
    [
      \* Consult local KVK for expert diagnosis | Monitor crop daily for change
      problem |->
        << <<"C","o","n","s","u","l","t"," ","l","o","c","a","l"," ","K","V",
           "K"," ","f","o","r"," ","e","x","p","e","r","t"," ","d","i","a",
           "g","n","o","s","i","s">>,
           <<"M","o","n","i","t","o","r"," ","c","r","o","p"," ","d","a","i",
           "l","y"," ","f","o","r"," ","c","h","a","n","g","e","s">>,
           <<"C","o","n","s","i","d","e","r"," ","s","o","i","l"," ","t","e",
           "s","t","i","n","g"," ","i","f"," ","n","e","e","d","e","d">> >>,
      \* Check soil moisture levels | Monitor weather forecast | Adjust irrigat
      irrigation |->
        << <<"C","h","e","c","k"," ","s","o","i","l"," ","m","o","i","s","t",
           "u","r","e"," ","l","e","v","e","l","s">>,
           <<"M","o","n","i","t","o","r"," ","w","e","a","t","h","e","r"," ",
           "f","o","r","e","c","a","s","t">>,
           <<"A","d","j","u","s","t"," ","i","r","r","i","g","a","t","i","o",
           "n"," ","s","c","h","e","d","u","l","e"," ","a","c","c","o","r",
           "d","i","n","g","l","y">> >>,
      \* Check local weather conditions | Prepare soil with proper nutrients | 
      planting |->
        << <<"C","h","e","c","k"," ","l","o","c","a","l"," ","w","e","a","t",
           "h","e","r"," ","c","o","n","d","i","t","i","o","n","s">>,
           <<"P","r","e","p","a","r","e"," ","s","o","i","l"," ","w","i","t",
           "h"," ","p","r","o","p","e","r"," ","n","u","t","r","i","e","n",
           "t","s">>,
           <<"S","o","u","r","c","e"," ","q","u","a","l","i","t","y"," ","s",
           "e","e","d","s"," ","f","r","o","m"," ","c","e","r","t","i","f",
           "i","e","d"," ","d","e","a","l","e","r","s">> >>,
      \* Check current mandi prices | Consider storage options | Plan harvest t
      market |->
        << <<"C","h","e","c","k"," ","c","u","r","r","e","n","t"," ","m","a",
           "n","d","i"," ","p","r","i","c","e","s">>,
           <<"C","o","n","s","i","d","e","r"," ","s","t","o","r","a","g","e",
           " ","o","p","t","i","o","n","s">>,
           <<"P","l","a","n"," ","h","a","r","v","e","s","t"," ","t","i","m",
           "i","n","g"," ","s","t","r","a","t","e","g","i","c","a","l","l",
           "y">> >>,
      \* Consult local agricultural expert | Monitor crop conditions regularly 
      default |->
        << <<"C","o","n","s","u","l","t"," ","l","o","c","a","l"," ","a","g",
           "r","i","c","u","l","t","u","r","a","l"," ","e","x","p","e","r",
           "t">>,
           <<"M","o","n","i","t","o","r"," ","c","r","o","p"," ","c","o","n",
           "d","i","t","i","o","n","s"," ","r","e","g","u","l","a","r","l",
           "y">>,
           <<"K","e","e","p"," ","r","e","c","o","r","d","s"," ","o","f"," ",
           "f","a","r","m","i","n","g"," ","a","c","t","i","v","i","t","i",
           "e","s">> >> ]

\* routes/query.py: the literal texts of the fallback generators, the
\* normaliser and the prompt
QueryText ==
    [
      \* ??? ???? ???? ?????? ?????? ?? ??? ???? ????
      greeting_hi |->
        <<"u092E","u0948","u0902"," ","u0906","u092A","u0915","u0940"," ",
          "u0915","u0943","u0937","u093F"," ","u0938","u0902","u092C",
          "u0902","u0927","u0940"," ","u0938","u0939","u093E","u092F",
          "u0924","u093E"," ","u0915","u0947"," ","u0932","u093F","u090F",
          " ","u092F","u0939","u093E","u0901"," ","u0939","u0942","u0901",
          "u0964">>,
      \* ???? ??? ??????? ???? ????? ??? ?? ???? ??? ?????? ?? ???? ???:
      advice_hi |->
        <<"u092F","u0939","u093E","u0901"," ","u0915","u0941","u091B"," ",
          "u0938","u093E","u092E","u093E","u0928","u094D","u092F"," ",
          "u0915","u0943","u0937","u093F"," ","u0938","u0941","u091D",
          "u093E","u0935"," ","u0939","u0948","u0902"," ","u091C","u094B",
          " ","u0906","u092A","u0915","u0947"," ","u0932","u093F","u090F",
          " ","u0909","u092A","u092F","u094B","u0917","u0940"," ","u0939",
          "u094B"," ","u0938","u0915","u0924","u0947"," ","u0939","u0948",
          "u0902",":">>,
      \* I'm here to help with your farming questions.
      greeting_en |->
        <<"I","'","m"," ","h","e","r","e"," ","t","o"," ","h","e","l","p",
          " ","w","i","t","h"," ","y","o","u","r"," ","f","a","r","m","i",
          "n","g"," ","q","u","e","s","t","i","o","n","s",".">>,
      \* Here are some general farming tips that might be useful for your situa
      advice_en |->
        <<"H","e","r","e"," ","a","r","e"," ","s","o","m","e"," ","g","e",
          "n","e","r","a","l"," ","f","a","r","m","i","n","g"," ","t","i",
          "p","s"," ","t","h","a","t"," ","m","i","g","h","t"," ","b","e",
          " ","u","s","e","f","u","l"," ","f","o","r"," ","y","o","u","r",
          " ","s","i","t","u","a","t","i","o","n",":">>,
      \* ?????? ?? ??? ?????? ?? ??? ?? ???? ???? ?? ???? ??????????? ??????
      irrigation_hi |->
        <<"u0938","u093F","u0902","u091A","u093E","u0908"," ","u0915",
          "u0947"," ","u0932","u093F","u090F"," ","u092E","u093F","u091F",
          "u094D","u091F","u0940"," ","u0915","u0940"," ","u0928","u092E",
          "u0940"," ","u0915","u0940"," ","u091C","u093E","u0902","u091A",
          " ","u0915","u0930","u0947","u0902"," ","u0914","u0930"," ",
          "u092E","u094C","u0938","u092E"," ","u092A","u0942","u0930",
          "u094D","u0935","u093E","u0928","u0941","u092E","u093E","u0928",
          " ","u0926","u0947","u0916","u0947","u0902","u0964">>,
      \* For irrigation, check soil moisture levels and monitor weather forecas
      irrigation_en |->
        <<"F","o","r"," ","i","r","r","i","g","a","t","i","o","n",","," ",
          "c","h","e","c","k"," ","s","o","i","l"," ","m","o","i","s","t",
          "u","r","e"," ","l","e","v","e","l","s"," ","a","n","d"," ","m",
          "o","n","i","t","o","r"," ","w","e","a","t","h","e","r"," ","f",
          "o","r","e","c","a","s","t","s",".">>,
      \* ??? ?? ??? ??????? ?? ??? ?????? ??????? ?? ?????? ??? ??????? ???????
      pest_hi |->
        <<"u0915","u0940","u091F"," ","u0914","u0930"," ","u0930","u094B",
          "u0917"," ","u092A","u094D","u0930","u092C","u0902","u0927",
          "u0928"," ","u0915","u0947"," ","u0932","u093F","u090F"," ",
          "u0928","u093F","u092F","u092E","u093F","u0924"," ","u0928",
          "u093F","u0917","u0930","u093E","u0928","u0940"," ","u0914",
          "u0930"," ","u090F","u0915","u0940","u0915","u0943","u0924"," ",
          "u0915","u0940","u091F"," ","u092A","u094D","u0930","u092C",
          "u0902","u0927","u0928"," ","u0905","u092A","u0928","u093E",
          "u090F","u0902","u0964">>,
      \* For pest and disease management, regular monitoring and integrated pes
      pest_en |->
        <<"F","o","r"," ","p","e","s","t"," ","a","n","d"," ","d","i","s",
          "e","a","s","e"," ","m","a","n","a","g","e","m","e","n","t",",",
          " ","r","e","g","u","l","a","r"," ","m","o","n","i","t","o","r",
          "i","n","g"," ","a","n","d"," ","i","n","t","e","g","r","a","t",
          "e","d"," ","p","e","s","t"," ","m","a","n","a","g","e","m","e",
          "n","t"," ","a","r","e"," ","e","s","s","e","n","t","i","a","l",
          ".">>,
      \* ????? ?? ??? ??????? ?????? ?? ?????? ?? ?????? ?? ?????? ???? ???
      planting_hi |->
        <<"u092C","u0941","u0935","u093E","u0908"," ","u0915","u093E"," ",
          "u0938","u092E","u092F"," ","u0938","u094D","u0925","u093E",
          "u0928","u0940","u092F"," ","u091C","u0932","u0935","u093E",
          "u092F","u0941"," ","u0914","u0930"," ","u092E","u093F","u091F",
          "u094D","u091F","u0940"," ","u0915","u0940"," ","u0938","u094D",
          "u0925","u093F","u0924","u093F"," ","u092A","u0930"," ","u0928",
          "u093F","u0930","u094D","u092D","u0930"," ","u0915","u0930",
          "u0924","u093E"," ","u0939","u0948","u0964">>,
      \* Planting timing depends on local climate and soil conditions.
      planting_en |->
        <<"P","l","a","n","t","i","n","g"," ","t","i","m","i","n","g"," ",
          "d","e","p","e","n","d","s"," ","o","n"," ","l","o","c","a","l",
          " ","c","l","i","m","a","t","e"," ","a","n","d"," ","s","o","i",
          "l"," ","c","o","n","d","i","t","i","o","n","s",".">>,
      \* ????? ?? ?????? ????, ??????? ?? ????? ?????? ?? ?????? ???? ????
      market_hi |->
        <<"u092C","u093E","u091C","u093E","u0930"," ","u0915","u0940"," ",
          "u0915","u0940","u092E","u0924","u0947","u0902"," ","u092E",
          "u093E","u0902","u0917",","," ","u0906","u092A","u0942","u0930",
          "u094D","u0924","u093F"," ","u0914","u0930"," ","u092E","u094C",
          "u0938","u092E","u0940"," ","u0915","u093E","u0930","u0915",
          "u094B","u0902"," ","u092A","u0930"," ","u0928","u093F","u0930",
          "u094D","u092D","u0930"," ","u0915","u0930","u0924","u0940"," ",
          "u0939","u0948","u0902","u0964">>,
      \* Market prices depend on supply, demand, and seasonal factors.
      market_en |->
        <<"M","a","r","k","e","t"," ","p","r","i","c","e","s"," ","d","e",
          "p","e","n","d"," ","o","n"," ","s","u","p","p","l","y",","," ",
          "d","e","m","a","n","d",","," ","a","n","d"," ","s","e","a","s",
          "o","n","a","l"," ","f","a","c","t","o","r","s",".">>,
      \* ?????? ?????? ???????, ??????? ?????? ?????, ?? ?????? ??? ??????? ???
      general_hi |->
        <<"u0928","u093F","u092F","u092E","u093F","u0924"," ","u092E",
          "u093F","u091F","u094D","u091F","u0940"," ","u092A","u0930",
          "u0940","u0915","u094D","u0937","u0923",","," ","u0938","u0902",
          "u0924","u0941","u0932","u093F","u0924"," ","u0909","u0930",
          "u094D","u0935","u0930","u0915"," ","u0909","u092A","u092F",
          "u094B","u0917",","," ","u0914","u0930"," ","u090F","u0915",
          "u0940","u0915","u0943","u0924"," ","u0915","u0940","u091F"," ",
          "u092A","u094D","u0930","u092C","u0902","u0927","u0928"," ",
          "u0905","u092A","u0928","u093E","u090F","u0902","u0964">>,
      \* Regular soil testing, balanced fertilization, and integrated pest mana
      general_en |->
        <<"R","e","g","u","l","a","r"," ","s","o","i","l"," ","t","e","s",
          "t","i","n","g",","," ","b","a","l","a","n","c","e","d"," ","f",
          "e","r","t","i","l","i","z","a","t","i","o","n",","," ","a","n",
          "d"," ","i","n","t","e","g","r","a","t","e","d"," ","p","e","s",
          "t"," ","m","a","n","a","g","e","m","e","n","t",".">>,
      \* ????? ?? ?? ?????? ?? ???? ?? (
      image_pre_hi |->
        <<"u0905","u092A","u0932","u094B","u0921"," ","u0915","u0940"," ",
          "u0917","u0908"," ","u0924","u0938","u094D","u0935","u0940",
          "u0930"," ","u0915","u0947"," ","u0906","u0927","u093E","u0930",
          " ","u092A","u0930"," ","(">>,
      \* Based on the uploaded image (
      image_pre_en |->
        <<"B","a","s","e","d"," ","o","n"," ","t","h","e"," ","u","p","l",
          "o","a","d","e","d"," ","i","m","a","g","e"," ","(">>,
      \* ): 
      image_post |->
        <<")",":"," ">>,
      \* ICAR Guidelines
      src_title_en |->
        <<"I","C","A","R"," ","G","u","i","d","e","l","i","n","e","s">>,
      \* ICAR ???????????
      src_title_hi |->
        <<"I","C","A","R"," ","u0926","u093F","u0936","u093E","u0928",
          "u093F","u0930","u094D","u0926","u0947","u0936">>,
      \* https://icar.org.in
      src_url |->
        <<"h","t","t","p","s",":","/","/","i","c","a","r",".","o","r","g",
          ".","i","n">>,
      \* Comprehensive agricultural guidance and best practices
      src_snippet_en |->
        <<"C","o","m","p","r","e","h","e","n","s","i","v","e"," ","a","g",
          "r","i","c","u","l","t","u","r","a","l"," ","g","u","i","d","a",
          "n","c","e"," ","a","n","d"," ","b","e","s","t"," ","p","r","a",
          "c","t","i","c","e","s">>,
      \* ?????? ???? ?????????? ?? ????????? ???????
      src_snippet_hi |->
        <<"u0935","u094D","u092F","u093E","u092A","u0915"," ","u0915",
          "u0943","u0937","u093F"," ","u092E","u093E","u0930","u094D",
          "u0917","u0926","u0930","u094D","u0936","u0928"," ","u0914",
          "u0930"," ","u0938","u0930","u094D","u0935","u094B","u0924",
          "u094D","u0924","u092E"," ","u092A","u094D","u0930","u0925",
          "u093E","u090F","u0902">>,
      \* Enhanced offline guidance
      fallback_reason |->
        <<"E","n","h","a","n","c","e","d"," ","o","f","f","l","i","n","e",
          " ","g","u","i","d","a","n","c","e">>,
      \* Farm-Guru ??? ???? ?????? ?? ??????? ???? ?? ????? ???? ??? ???????? ?
      emergency_hi |->
        <<"F","a","r","m","-","G","u","r","u"," ","u0905","u092D","u0940",
          " ","u0906","u092A","u0915","u0947"," ","u092A","u094D","u0930",
          "u0936","u094D","u0928"," ","u0915","u094B"," ","u0938","u0902",
          "u0938","u093E","u0927","u093F","u0924"," ","u0928","u0939",
          "u0940","u0902"," ","u0915","u0930"," ","u0938","u0915","u0924",
          "u093E","u0964"," ","u092F","u0939","u093E","u0901"," ","u0915",
          "u0941","u091B"," ","u0938","u0941","u0930","u0915","u094D",
          "u0937","u093F","u0924"," ","u0938","u093E","u092E","u093E",
          "u0928","u094D","u092F"," ","u0938","u0941","u091D","u093E",
          "u0935"," ","u0939","u0948","u0902",":">>,
      \* Farm-Guru cannot process your query right now. Here are some safe gene
      emergency_en |->
        <<"F","a","r","m","-","G","u","r","u"," ","c","a","n","n","o","t",
          " ","p","r","o","c","e","s","s"," ","y","o","u","r"," ","q","u",
          "e","r","y"," ","r","i","g","h","t"," ","n","o","w","."," ","H",
          "e","r","e"," ","a","r","e"," ","s","o","m","e"," ","s","a","f",
          "e"," ","g","e","n","e","r","a","l"," ","s","u","g","g","e","s",
          "t","i","o","n","s",":">>,
      \* General Agricultural Knowledge
      em_title_en |->
        <<"G","e","n","e","r","a","l"," ","A","g","r","i","c","u","l","t",
          "u","r","a","l"," ","K","n","o","w","l","e","d","g","e">>,
      \* ??????? ???? ?????
      em_title_hi |->
        <<"u0938","u093E","u092E","u093E","u0928","u094D","u092F"," ",
          "u0915","u0943","u0937","u093F"," ","u091C","u094D","u091E",
          "u093E","u0928">>,
      \* Basic farming principles and safety guidelines
      em_snippet_en |->
        <<"B","a","s","i","c"," ","f","a","r","m","i","n","g"," ","p","r",
          "i","n","c","i","p","l","e","s"," ","a","n","d"," ","s","a","f",
          "e","t","y"," ","g","u","i","d","e","l","i","n","e","s">>,
      \* ???????? ???? ???????? ?? ??????? ???????????
      em_snippet_hi |->
        <<"u092C","u0941","u0928","u093F","u092F","u093E","u0926","u0940",
          " ","u0915","u0943","u0937","u093F"," ","u0938","u093F","u0926",
          "u094D","u0927","u093E","u0902","u0924"," ","u0914","u0930"," ",
          "u0938","u0941","u0930","u0915","u094D","u0937","u093E"," ",
          "u0926","u093F","u0936","u093E","u0928","u093F","u0930","u094D",
          "u0926","u0947","u0936">>,
      \* System temporarily unavailable
      em_error |->
        <<"S","y","s","t","e","m"," ","t","e","m","p","o","r","a","r","i",
          "l","y"," ","u","n","a","v","a","i","l","a","b","l","e">>,
      \* fallback
      mode_fallback |->
        <<"f","a","l","l","b","a","c","k">>,
      \* emergency_fallback
      mode_emergency |->
        <<"e","m","e","r","g","e","n","c","y","_","f","a","l","l","b","a",
          "c","k">>,
      \* en
      lang_en |->
        <<"e","n">>,
      \* hi
      lang_hi |->
        <<"h","i">>,
      \* I'm here to help with your farming questions.
      default_answer |->
        <<"I","'","m"," ","h","e","r","e"," ","t","o"," ","h","e","l","p",
          " ","w","i","t","h"," ","y","o","u","r"," ","f","a","r","m","i",
          "n","g"," ","q","u","e","s","t","i","o","n","s",".">>,
      \* Agricultural Resource
      default_title |->
        <<"A","g","r","i","c","u","l","t","u","r","a","l"," ","R","e","s",
          "o","u","r","c","e">>,
      \* None
      none_text |->
        <<"N","o","n","e">>,
      \* True
      true_text |->
        <<"T","r","u","e">>,
      \* False
      false_text |->
        <<"F","a","l","s","e">>,
      \* You are Farm-Guru, an AI agricultural assistant. Based on the context 
      prompt_head |->
        <<"Y","o","u"," ","a","r","e"," ","F","a","r","m","-","G","u","r",
          "u",","," ","a","n"," ","A","I"," ","a","g","r","i","c","u","l",
          "t","u","r","a","l"," ","a","s","s","i","s","t","a","n","t",".",
          " ","B","a","s","e","d"," ","o","n"," ","t","h","e"," ","c","o",
          "n","t","e","x","t"," ","a","n","d"," ","q","u","e","r","y",",",
          " ","p","r","o","v","i","d","e"," ","h","e","l","p","f","u","l",
          " ","f","a","r","m","i","n","g"," ","a","d","v","i","c","e",".",
          "\n","\n","C","o","n","t","e","x","t",":","\n">>,
      \* \n\nQuery: 
      prompt_query |->
        <<"\n","\n","Q","u","e","r","y",":"," ">>,
      \* \n\n
      prompt_sep |->
        <<"\n","\n">>,
      \* \n\nRespond with practical, actionable advice. Be concise but comprehe
      prompt_tail |->
        <<"\n","\n","R","e","s","p","o","n","d"," ","w","i","t","h"," ","p",
          "r","a","c","t","i","c","a","l",","," ","a","c","t","i","o","n",
          "a","b","l","e"," ","a","d","v","i","c","e","."," ","B","e"," ",
          "c","o","n","c","i","s","e"," ","b","u","t"," ","c","o","m","p",
          "r","e","h","e","n","s","i","v","e",".">>,
      \* Title: 
      ctx_title |->
        <<"T","i","t","l","e",":"," ">>,
      \* \nContent: 
      ctx_content |->
        <<"\n","C","o","n","t","e","n","t",":"," ">>,
      \* N/A
      ctx_na |->
        <<"N","/","A">>,
      \* \n
      newline |->
        <<"\n">>,
      \* \nImage Context: 
      image_context_pre |->
        <<"\n","I","m","a","g","e"," ","C","o","n","t","e","x","t",":"," ">>,
      \* Image shows: 
      image_shows |->
        <<"I","m","a","g","e"," ","s","h","o","w","s",":"," ">> ]

\* routes/query.py: the keyword lists of generate_enhanced_fallback
QueryWords ==
    [
      \* irrigate | water | rain | drought
      irrigation |->
        << <<"i","r","r","i","g","a","t","e">>,
           <<"w","a","t","e","r">>,
           <<"r","a","i","n">>,
           <<"d","r","o","u","g","h","t">> >>,
      \* pest | disease | insect | fungus
      pest |->
        << <<"p","e","s","t">>,
           <<"d","i","s","e","a","s","e">>,
           <<"i","n","s","e","c","t">>,
           <<"f","u","n","g","u","s">> >>,
      \* plant | sow | seed | timing
      planting |->
        << <<"p","l","a","n","t">>,
           <<"s","o","w">>,
           <<"s","e","e","d">>,
           <<"t","i","m","i","n","g">> >>,
      \* price | market | sell | buy
      market |->
        << <<"p","r","i","c","e">>,
           <<"m","a","r","k","e","t">>,
           <<"s","e","l","l">>,
           <<"b","u","y">> >> ]

\* routes/query.py: the action lists
QueryActions ==
    [
      \* ?????? ?? ??? ?? ???? ???? | ???? ??????????? ????? | ?????? ?? ??? ??
      irrigation_hi |->
        << <<"u092E","u093F","u091F","u094D","u091F","u0940"," ","u0915",
           "u0940"," ","u0928","u092E","u0940"," ","u0915","u0940"," ",
           "u091C","u093E","u0902","u091A"," ","u0915","u0930","u0947",
           "u0902">>,
           <<"u092E","u094C","u0938","u092E"," ","u092A","u0942","u0930",
           "u094D","u0935","u093E","u0928","u0941","u092E","u093E","u0928",
           " ","u0926","u0947","u0916","u0947","u0902">>,
           <<"u0938","u093F","u0902","u091A","u093E","u0908"," ","u0915",
           "u093E"," ","u0938","u092E","u092F"," ","u0928","u093F","u0930",
           "u094D","u0927","u093E","u0930","u093F","u0924"," ","u0915",
           "u0930","u0947","u0902">> >>,
      \* Check soil moisture levels | Monitor weather forecasts | Plan irrigati
      irrigation_en |->
        << <<"C","h","e","c","k"," ","s","o","i","l"," ","m","o","i","s","t",
           "u","r","e"," ","l","e","v","e","l","s">>,
           <<"M","o","n","i","t","o","r"," ","w","e","a","t","h","e","r"," ",
           "f","o","r","e","c","a","s","t","s">>,
           <<"P","l","a","n"," ","i","r","r","i","g","a","t","i","o","n"," ",
           "t","i","m","i","n","g">> >>,
      \* ??? ?? ?????? ???? ???? | ??????? ???? ???????? ?? ???? ??? | ????? ??
      pest_hi |->
        << <<"u092B","u0938","u0932"," ","u0915","u0940"," ","u0928","u093F",
           "u092F","u092E","u093F","u0924"," ","u091C","u093E","u0902",
           "u091A"," ","u0915","u0930","u0947","u0902">>,
           <<"u0938","u094D","u0925","u093E","u0928","u0940","u092F"," ",
           "u0915","u0943","u0937","u093F"," ","u0935","u093F","u0936",
           "u0947","u0937","u091C","u094D","u091E"," ","u0938","u0947"," ",
           "u0938","u0932","u093E","u0939"," ","u0932","u0947","u0902">>,
           <<"u091C","u0948","u0935","u093F","u0915"," ","u0928","u093F",
           "u092F","u0902","u0924","u094D","u0930","u0923"," ","u0935",
           "u093F","u0927","u093F","u092F","u094B","u0902"," ","u0915",
           "u093E"," ","u0909","u092A","u092F","u094B","u0917"," ","u0915",
           "u0930","u0947","u0902">> >>,
      \* Monitor crops regularly | Consult local agricultural experts | Use bio
      pest_en |->
        << <<"M","o","n","i","t","o","r"," ","c","r","o","p","s"," ","r","e",
           "g","u","l","a","r","l","y">>,
           <<"C","o","n","s","u","l","t"," ","l","o","c","a","l"," ","a","g",
           "r","i","c","u","l","t","u","r","a","l"," ","e","x","p","e","r",
           "t","s">>,
           <<"U","s","e"," ","b","i","o","l","o","g","i","c","a","l"," ","c",
           "o","n","t","r","o","l"," ","m","e","t","h","o","d","s">> >>,
      \* ??????? ???? ??????? ????? | ???? ??????????? ?? ???? ???? | ?????????
      planting_hi |->
        << <<"u0938","u094D","u0925","u093E","u0928","u0940","u092F"," ",
           "u0915","u0943","u0937","u093F"," ","u0915","u0948","u0932",
           "u0947","u0902","u0921","u0930"," ","u0926","u0947","u0916",
           "u0947","u0902">>,
           <<"u092E","u094C","u0938","u092E"," ","u092A","u0942","u0930",
           "u094D","u0935","u093E","u0928","u0941","u092E","u093E","u0928",
           " ","u0915","u0940"," ","u091C","u093E","u0902","u091A"," ",
           "u0915","u0930","u0947","u0902">>,
           <<"u0917","u0941","u0923","u0935","u0924","u094D","u0924","u093E",
           "u092A","u0942","u0930","u094D","u0923"," ","u092C","u0940",
           "u091C"," ","u0915","u093E"," ","u091A","u092F","u0928"," ",
           "u0915","u0930","u0947","u0902">> >>,
      \* Check local agricultural calendar | Monitor weather forecasts | Select
      planting_en |->
        << <<"C","h","e","c","k"," ","l","o","c","a","l"," ","a","g","r","i",
           "c","u","l","t","u","r","a","l"," ","c","a","l","e","n","d","a",
           "r">>,
           <<"M","o","n","i","t","o","r"," ","w","e","a","t","h","e","r"," ",
           "f","o","r","e","c","a","s","t","s">>,
           <<"S","e","l","e","c","t"," ","q","u","a","l","i","t","y"," ","s",
           "e","e","d","s">> >>,
      \* ??????? ???? ?? ?????? ????? | ?????? ???????? ?? ????? ???? | ?????? 
      market_hi |->
        << <<"u0938","u094D","u0925","u093E","u0928","u0940","u092F"," ",
           "u092E","u0902","u0921","u0940"," ","u0915","u0940"," ","u0915",
           "u0940","u092E","u0924","u0947","u0902"," ","u0926","u0947",
           "u0916","u0947","u0902">>,
           <<"u092D","u0902","u0921","u093E","u0930","u0923"," ","u0935",
           "u093F","u0915","u0932","u094D","u092A","u094B","u0902"," ",
           "u092A","u0930"," ","u0935","u093F","u091A","u093E","u0930"," ",
           "u0915","u0930","u0947","u0902">>,
           <<"u092C","u093F","u0915","u094D","u0930","u0940"," ","u0915",
           "u093E"," ","u0938","u092E","u092F"," ","u0928","u093F","u0930",
           "u094D","u0927","u093E","u0930","u093F","u0924"," ","u0915",
           "u0930","u0947","u0902">> >>,
      \* Check local mandi prices | Consider storage options | Plan selling tim
      market_en |->
        << <<"C","h","e","c","k"," ","l","o","c","a","l"," ","m","a","n","d",
           "i"," ","p","r","i","c","e","s">>,
           <<"C","o","n","s","i","d","e","r"," ","s","t","o","r","a","g","e",
           " ","o","p","t","i","o","n","s">>,
           <<"P","l","a","n"," ","s","e","l","l","i","n","g"," ","t","i","m",
           "i","n","g">> >>,
      \* ?????? ??????? ????? | ??????? ?????? ?? ????? ???? | ??????? KVK ?? ?
      general_hi |->
        << <<"u092E","u093F","u091F","u094D","u091F","u0940"," ","u092A",
           "u0930","u0940","u0915","u094D","u0937","u0923"," ","u0915",
           "u0930","u093E","u090F","u0902">>,
           <<"u0938","u0902","u0924","u0941","u0932","u093F","u0924"," ",
           "u0909","u0930","u094D","u0935","u0930","u0915"," ","u0915",
           "u093E"," ","u0909","u092A","u092F","u094B","u0917"," ","u0915",
           "u0930","u0947","u0902">>,
           <<"u0938","u094D","u0925","u093E","u0928","u0940","u092F"," ","K",
           "V","K"," ","u0938","u0947"," ","u0938","u0932","u093E","u0939",
           " ","u0932","u0947","u0902">> >>,
      \* Conduct soil testing | Use balanced fertilizers | Consult local KVK
      general_en |->
        << <<"C","o","n","d","u","c","t"," ","s","o","i","l"," ","t","e","s",
           "t","i","n","g">>,
           <<"U","s","e"," ","b","a","l","a","n","c","e","d"," ","f","e","r",
           "t","i","l","i","z","e","r","s">>,
           <<"C","o","n","s","u","l","t"," ","l","o","c","a","l"," ","K","V",
           "K">> >>,
      \* ?????? ?? ??? ?? ?????? ???? ???? | ???????? ???????? ?? ???? ????? ? 
      emergency_hi |->
        << <<"u092E","u093F","u091F","u094D","u091F","u0940"," ","u0915",
           "u0940"," ","u0928","u092E","u0940"," ","u0915","u0940"," ",
           "u0928","u093F","u092F","u092E","u093F","u0924"," ","u091C",
           "u093E","u0902","u091A"," ","u0915","u0930","u0947","u0902">>,
           <<"u0930","u093E","u0938","u093E","u092F","u0928","u093F","u0915",
           " ","u0909","u0930","u094D","u0935","u0930","u0915","u094B",
           "u0902"," ","u0915","u093E"," ","u0905","u0927","u093F","u0915",
           " ","u0909","u092A","u092F","u094B","u0917"," ","u0928"," ",
           "u0915","u0930","u0947","u0902">>,
           <<"u092E","u0932","u094D","u091A","u093F","u0902","u0917"," ",
           "u0915","u093E"," ","u0909","u092A","u092F","u094B","u0917"," ",
           "u0915","u0930","u0947","u0902">> >>,
      \* Check soil moisture regularly | Avoid overuse of chemical fertilizers 
      emergency_en |->
        << <<"C","h","e","c","k"," ","s","o","i","l"," ","m","o","i","s","t",
           "u","r","e"," ","r","e","g","u","l","a","r","l","y">>,
           <<"A","v","o","i","d"," ","o","v","e","r","u","s","e"," ","o","f",
           " ","c","h","e","m","i","c","a","l"," ","f","e","r","t","i","l",
           "i","z","e","r","s">>,
           <<"U","s","e"," ","m","u","l","c","h","i","n","g"," ","t","o"," ",
           "r","e","t","a","i","n"," ","s","o","i","l"," ","m","o","i","s",
           "t","u","r","e">> >>,
      \* Consult local agricultural expert | Monitor crop conditions
      default |->
        << <<"C","o","n","s","u","l","t"," ","l","o","c","a","l"," ","a","g",
           "r","i","c","u","l","t","u","r","a","l"," ","e","x","p","e","r",
           "t">>,
           <<"M","o","n","i","t","o","r"," ","c","r","o","p"," ","c","o","n",
           "d","i","t","i","o","n","s">> >> ]

\* the spelling of the dict keys the program reads or writes
KeyChars ==
    [
      \* answer
      answer |->
        <<"a","n","s","w","e","r">>,
      \* confidence
      confidence |->
        <<"c","o","n","f","i","d","e","n","c","e">>,
      \* actions
      actions |->
        <<"a","c","t","i","o","n","s">>,
      \* sources
      sources |->
        <<"s","o","u","r","c","e","s">>,
      \* meta
      meta |->
        <<"m","e","t","a">>,
      \* title
      title |->
        <<"t","i","t","l","e">>,
      \* url
      url |->
        <<"u","r","l">>,
      \* snippet
      snippet |->
        <<"s","n","i","p","p","e","t">>,
      \* mode
      mode |->
        <<"m","o","d","e">>,
      \* model
      model |->
        <<"m","o","d","e","l">>,
      \* content
      content |->
        <<"c","o","n","t","e","n","t">>,
      \* id
      id |->
        <<"i","d">>,
      \* similarity
      similarity |->
        <<"s","i","m","i","l","a","r","i","t","y">> ]

\* sample texts returned by the generative backend (generated_text)
HfSamples ==
    [
      \* Irrigate at dawn.
      plain |->
        <<"I","r","r","i","g","a","t","e"," ","a","t"," ","d","a","w","n",
          ".">>,
      \*   
      blank |->
        <<" "," ">>,
      \* {"answer": "Irrigate at dawn.", "confidence": 0.9, "actions": ["Check 
      valid |->
        <<"{","\"","a","n","s","w","e","r","\"",":"," ","\"","I","r","r",
          "i","g","a","t","e"," ","a","t"," ","d","a","w","n",".","\"",",",
          " ","\"","c","o","n","f","i","d","e","n","c","e","\"",":"," ","0",
          ".","9",","," ","\"","a","c","t","i","o","n","s","\"",":"," ","[",
          "\"","C","h","e","c","k"," ","s","o","i","l","\"","]",","," ",
          "\"","s","o","u","r","c","e","s","\"",":"," ","[","]","}">>,
      \* {"answer":"ok","confidence":1.5,"actions":["a","b","c","d"],"sources":
      overlong |->
        <<"{","\"","a","n","s","w","e","r","\"",":","\"","o","k","\"",",",
          "\"","c","o","n","f","i","d","e","n","c","e","\"",":","1",".","5",
          ",","\"","a","c","t","i","o","n","s","\"",":","[","\"","a","\"",
          ",","\"","b","\"",",","\"","c","\"",",","\"","d","\"","]",",",
          "\"","s","o","u","r","c","e","s","\"",":","[","{","\"","t","i",
          "t","l","e","\"",":","\"","t","\"",",","\"","s","n","i","p","p",
          "e","t","\"",":","\"","S","o","i","l"," ","t","e","s","t","i","n",
          "g"," ","e","v","e","r","y"," ","2","-","3"," ","y","e","a","r",
          "s"," ","h","e","l","p","s"," ","d","e","t","e","r","m","i","n",
          "e"," ","n","u","t","r","i","e","n","t"," ","s","t","a","t","u",
          "s"," ","a","n","d"," ","g","u","i","d","e","s"," ","b","a","l",
          "a","n","c","e","d"," ","f","e","r","t","i","l","i","z","e","r",
          " ","a","p","p","l","i","c","a","t","i","o","n"," ","f","o","r",
          " ","e","a","c","h"," ","f","i","e","l","d",".","\"","}","]","}">>,
      \* {"answer":"ok","confidence":0.9,"actions":[]}
      no_sources |->
        <<"{","\"","a","n","s","w","e","r","\"",":","\"","o","k","\"",",",
          "\"","c","o","n","f","i","d","e","n","c","e","\"",":","0",".","9",
          ",","\"","a","c","t","i","o","n","s","\"",":","[","]","}">>,
      \* {"answer":"","confidence":"high","actions":null,"sources":[5]}
      empty_answer |->
        <<"{","\"","a","n","s","w","e","r","\"",":","\"","\"",",","\"","c",
          "o","n","f","i","d","e","n","c","e","\"",":","\"","h","i","g","h",
          "\"",",","\"","a","c","t","i","o","n","s","\"",":","n","u","l",
          "l",",","\"","s","o","u","r","c","e","s","\"",":","[","5","]","}">>,
      \* {"answer":["ok"],"confidence":1,"actions":[],"sources":[]}
      list_answer |->
        <<"{","\"","a","n","s","w","e","r","\"",":","[","\"","o","k","\"",
          "]",",","\"","c","o","n","f","i","d","e","n","c","e","\"",":","1",
          ",","\"","a","c","t","i","o","n","s","\"",":","[","]",",","\"",
          "s","o","u","r","c","e","s","\"",":","[","]","}">>,
      \* 5
      number |->
        <<"5">>,
      \* null
      null |->
        <<"n","u","l","l">>,
      \* "answer confidence actions sources"
      text_naming_fields |->
        <<"\"","a","n","s","w","e","r"," ","c","o","n","f","i","d","e","n",
          "c","e"," ","a","c","t","i","o","n","s"," ","s","o","u","r","c",
          "e","s","\"">>,
      \* ["answer","confidence","actions","sources"]
      list_naming_fields |->
        <<"[","\"","a","n","s","w","e","r","\"",",","\"","c","o","n","f",
          "i","d","e","n","c","e","\"",",","\"","a","c","t","i","o","n","s",
          "\"",",","\"","s","o","u","r","c","e","s","\"","]">> ]

\* sample queries, image contexts and document fields of the synthesizer
SynthSamples ==
    [
      \* When should I irrigate my wheat field?
      q_irrigate |->
        <<"W","h","e","n"," ","s","h","o","u","l","d"," ","I"," ","i","r",
          "r","i","g","a","t","e"," ","m","y"," ","w","h","e","a","t"," ",
          "f","i","e","l","d","?">>,
      \* pest problem after I water and plant
      q_mixed |->
        <<"p","e","s","t"," ","p","r","o","b","l","e","m"," ","a","f","t",
          "e","r"," ","I"," ","w","a","t","e","r"," ","a","n","d"," ","p",
          "l","a","n","t">>,
      \* Best PRICE to sell?
      q_market |->
        <<"B","e","s","t"," ","P","R","I","C","E"," ","t","o"," ","s","e",
          "l","l","?">>,
      \* hello
      q_other |->
        <<"h","e","l","l","o">>,
      \* Image shows: leaf
      image_leaf |->
        <<"I","m","a","g","e"," ","s","h","o","w","s",":"," ","l","e","a",
          "f">>,
      \* Wheat requires 4-6 irrigations.
      snip_short |->
        <<"W","h","e","a","t"," ","r","e","q","u","i","r","e","s"," ","4",
          "-","6"," ","i","r","r","i","g","a","t","i","o","n","s",".">>,
      \* Soil testing every 2-3 years helps determine nutrient status and guide
      snip_long |->
        <<"S","o","i","l"," ","t","e","s","t","i","n","g"," ","e","v","e",
          "r","y"," ","2","-","3"," ","y","e","a","r","s"," ","h","e","l",
          "p","s"," ","d","e","t","e","r","m","i","n","e"," ","n","u","t",
          "r","i","e","n","t"," ","s","t","a","t","u","s"," ","a","n","d",
          " ","g","u","i","d","e","s"," ","b","a","l","a","n","c","e","d",
          " ","f","e","r","t","i","l","i","z","e","r"," ","a","p","p","l",
          "i","c","a","t","i","o","n"," ","f","o","r"," ","e","a","c","h",
          " ","f","i","e","l","d",".">>,
      \* Wheat Irrigation Guidelines
      title_wheat |->
        <<"W","h","e","a","t"," ","I","r","r","i","g","a","t","i","o","n",
          " ","G","u","i","d","e","l","i","n","e","s">>,
      \* Soil health
      content_soil |->
        <<"S","o","i","l"," ","h","e","a","l","t","h">>,
      \* https://icar.org.in/wheat-cultivation
      url |->
        <<"h","t","t","p","s",":","/","/","i","c","a","r",".","o","r","g",
          ".","i","n","/","w","h","e","a","t","-","c","u","l","t","i","v",
          "a","t","i","o","n">>,
      \* m
      hf_model |->
        <<"m">> ]

-----------------------------------------------------------------------------
(* Sample corpus documents and queries of the retriever *)

MkDoc(id, title, content, snippet) ==
    [id |-> PyStr(id), title |-> PyStr(title), content |-> PyStr(content),
     url |-> PyStr(<<"u">>), snippet |-> PyStr(snippet)]

SampleDocs ==
    { MkDoc(<<"1">>, <<"a">>, <<"a", " ", "b">>, <<"s", "1">>),
      MkDoc(<<"2">>, <<"B">>, <<"c">>, <<"s", "2">>),
      MkDoc(<<"3">>, <<"c">>, <<"a", " ", " ", "a">>, <<"s", "3">>),
      MkDoc(<<"4">>, <<"d">>, <<"d">>, <<"s", "4">>),
      MkDoc(<<"5">>, <<"b", " ", "a">>, <<"A">>, <<"s", "5">>) }

SampleQueries ==
    { <<"a">>, <<"A", " ", "b">>, <<"c", " ", " ", "e">>, <<"e">> }

\* the corpora a constructed retriever can hold: _load_documents never leaves
\* the document list empty (the built-in knowledge base is the fallback)
Corpora == UNION { [1..n -> SampleDocs] : n \in 1..MaxDocs }

-----------------------------------------------------------------------------
(* EmbeddingProvider: SentenceTransformer.encode, a deterministic map from  *)
(* a text to a vector of fixed dimension (raw, not normalised)             *)

RECURSIVE CountChar(_, _)
CountChar(s, c) ==
    IF s = <<>> THEN 0
    ELSE (IF LowerChar(Head(s)) = c THEN 1 ELSE 0) + CountChar(Tail(s), c)

Embed(text) == <<CountChar(text, "a"), CountChar(text, "b")>>

NdArray(rows) == [kind |-> "ndarray", val |-> rows]

\* an encoder that stores the vectors it has when it is interrupted: the last
\* text is missing
EncodePartial(texts) ==
    NdArray([i \in 1..(Len(texts) - 1) |-> Embed(texts[i])])

\* model.encode(texts): one vector per text
Encode(texts) == NdArray([i \in 1..Len(texts) |-> Embed(texts[i])])

\* texts = [doc.get("content", "") for doc in self.documents]
CorpusTexts(docs) ==
    [i \in 1..Len(docs) |-> Get(docs[i], "content", PyStr(<<>>)).val]

RECURSIVE Dot(_, _)
Dot(u, v) ==
    IF u = <<>> \/ v = <<>> THEN 0
    ELSE Head(u) * Head(v) + Dot(Tail(u), Tail(v))

-----------------------------------------------------------------------------
(* Ordering helpers *)

\* list.sort(key=similarity, reverse=True): stable, descending
InsertDesc(sorted, d) ==
    LET n == Cardinality({ i \in 1..Len(sorted) :
                 Hundredths(sorted[i].similarity) >= Hundredths(d.similarity) })
    IN  SubSeq(sorted, 1, n) \o <<d>> \o SubSeq(sorted, n + 1, Len(sorted))

RECURSIVE SortDesc(_)
SortDesc(seq) ==
    IF seq = <<>> THEN <<>>
    ELSE InsertDesc(SortDesc(SubSeq(seq, 1, Len(seq) - 1)), seq[Len(seq)])

\* np.argsort(similarities): indices in ascending order of value (insertion
\* sort on arrays this small, so equal values keep their index order)
InsertAsc(sorted, i, sims) ==
    LET n == Cardinality({ j \in 1..Len(sorted) : sims[sorted[j]] <= sims[i] })
    IN  SubSeq(sorted, 1, n) \o <<i>> \o SubSeq(sorted, n + 1, Len(sorted))

RECURSIVE ArgSortUpTo(_, _)
ArgSortUpTo(sims, n) ==
    IF n = 0 THEN <<>> ELSE InsertAsc(ArgSortUpTo(sims, n - 1), n, sims)

ArgSort(sims) == ArgSortUpTo(sims, Len(sims))

\* seq[::-1]
Reverse(seq) == [i \in 1..Len(seq) |-> seq[Len(seq) + 1 - i]]

-----------------------------------------------------------------------------
(* DocumentRetriever._keyword_search *)

\* KeywordScore with the title weighted like the content
KeywordScoreUnweighted(doc, q) ==
    LET query_words == WordSet(Lower(q))
        content_words == WordSet(Lower(Get(doc, "content", PyStr(<<>>)).val))
        title_words == WordSet(Lower(Get(doc, "title", PyStr(<<>>)).val))
    IN  Cardinality(query_words \cap title_words)
          + Cardinality(query_words \cap content_words)

KeywordScore(doc, q) ==
    LET query_words == WordSet(Lower(q))
        content_words == WordSet(Lower(Get(doc, "content", PyStr(<<>>)).val))
        title_words == WordSet(Lower(Get(doc, "title", PyStr(<<>>)).val))
        title_score == Cardinality(query_words \cap title_words) * 2
        content_score == Cardinality(query_words \cap content_words)
    IN  title_score + content_score

\* doc_copy = dict(doc); doc_copy["similarity"] = v
WithSimilarity(doc, v) == Put(doc, "similarity", v)

\* the loop of _keyword_search over the first n documents: the documents with
\* a positive score, copied in corpus order with the score attached
RECURSIVE ScoredUpTo(_, _, _)
ScoredUpTo(docs, q, n) ==
    IF n = 0 THEN <<>>
    ELSE LET total_score == KeywordScore(docs[n], q)
         IN  IF total_score > 0
             THEN Append(ScoredUpTo(docs, q, n - 1),
                         WithSimilarity(docs[n], PyInt(total_score)))
             ELSE ScoredUpTo(docs, q, n - 1)

ScoredDocs(docs, q) == ScoredUpTo(docs, q, Len(docs))

KeywordSearch(docs, q, kk) == Prefix(SortDesc(ScoredDocs(docs, q)), kk)

-----------------------------------------------------------------------------
(* DocumentRetriever.retrieve, local similarity tier *)

\* similarities = np.dot(query_embedding, self.embeddings.T).flatten()
Similarities(qv, embs) ==
    [i \in 1..Len(embs.val) |-> Dot(qv, embs.val[i])]

\* TopIndices without the reversal
TopIndicesAscending(sims, kk) == Prefix(ArgSort(sims), kk)

\* top_indices = np.argsort(similarities)[::-1][:k]
TopIndices(sims, kk) == Prefix(Reverse(ArgSort(sims)), kk)

LocalSearch(docs, embs, q, kk) ==
    LET sims == Similarities(Embed(q), embs)
        top == TopIndices(sims, kk)
    IN  [j \in 1..Len(top) |->
            WithSimilarity(docs[top[j]], PyFloat(sims[top[j]] * 100))]

-----------------------------------------------------------------------------
(* CorpusStore.vectorSearch: the store's match_documents procedure.  The    *)
(* store scores a document by the squared cosine of the query vector and   *)
(* the vector it holds for the document, in hundredths, keeps the scores   *)
(* at or above the threshold and returns the best match_count of them.     *)

MatchThreshold == 30

ServerSim(qv, dv) ==
    IF Dot(qv, qv) = 0 \/ Dot(dv, dv) = 0 THEN 0
    ELSE (100 * Dot(qv, dv) * Dot(qv, dv)) \div (Dot(qv, qv) * Dot(dv, dv))

MatchDocuments(docs, qv, threshold, match_count) ==
    LET sim(i) == ServerSim(qv, Embed(Get(docs[i], "content", PyStr(<<>>)).val))
        keep == { i \in 1..Len(docs) : sim(i) >= threshold }
        idx == ArgSort([i \in 1..Len(docs) |-> IF i \in keep THEN 0 ELSE 1])
        rows == [j \in 1..Cardinality(keep) |->
                    WithSimilarity(docs[idx[j]], PyFloat(sim(idx[j])))]
    IN  Prefix(SortDesc(rows), match_count)

-----------------------------------------------------------------------------
(* DocumentRetriever: construction, _attach_model, retrieve *)

TheModel == [kind |-> "model", val |-> <<>>]

NoResult == [kind |-> "pending", val |-> <<>>]
Raised == [kind |-> "raise", val |-> <<>>]

Entry(tier, out) == [tier |-> tier, out |-> out]

\* Handler without the outer try of retrieve (lines 164, 217-219)
HandlerNoOuterTry(site) ==
    CASE site = "remote" -> "local"
      [] site = "ondemand" -> "keyword"
      [] OTHER -> "raise"

\* Handler with the remote search under the outer try only (no lines 167,
\* 177-178): a failed remote search goes straight to the keyword tier
HandlerRemoteToKeyword(site) ==
    CASE site = "remote" -> "keyword"
      [] site = "local" -> "keyword"
      [] site = "ondemand" -> "keyword"
      [] OTHER -> "raise"

\* Handler without the try around the on-demand embedding pass (no lines 205,
\* 213-215) and without the outer try
HandlerOnDemandRaises(site) ==
    CASE site = "remote" -> "local"
      [] site = "local" -> "keyword"
      [] OTHER -> "raise"

\* The try/except structure of retrieve: where control goes when the code at a
\* site raises.
Handler(site) ==
    CASE site = "remote" -> "local"
      [] site = "local" -> "keyword"
      [] site = "ondemand" -> "keyword"
      [] OTHER -> "raise"

\* the state after an exception raised at `site`, the trace being tr
Recover(site, tr) ==
    LET h == Handler(site)
    IN  /\ pc' = IF h = "local" THEN "local" ELSE "done"
        /\ result' = CASE h = "keyword" ->
                            PyList(KeywordSearch(documents, query_text, k))
                       [] h = "raise" -> Raised
                       [] OTHER -> result
        /\ trace' = IF h = "keyword" THEN Append(tr, Entry("keyword", "ok"))
                    ELSE tr

\* no synthesize_answer call, no ensure_response_structure call and no request
\* in progress
LlmIdle ==
    /\ DEMO_MODE = FALSE
    /\ HF_API_KEY = None
    /\ HF_MODEL = None
    /\ spc = "idle"
    /\ prompt_text = <<>>
    /\ retrieved_docs = PyList(<<>>)
    /\ image_context = None
    /\ attempt = 0
    /\ hfLog = <<>>
    /\ hf_response = None
    /\ response = NoResult

NormIdle ==
    /\ given = NoResult
    /\ candidate = NoResult
    /\ normalized = NoResult
    /\ previous = NoResult
    /\ passes = 0

QueryIdle ==
    /\ request = NoResult
    /\ qpc = "idle"
    /\ reply = NoResult
    /\ origin = "none"
    /\ raisedAt = {}
    /\ stages = <<>>

\* a search that writes the score into the stored document itself: the
\* documents of the corpus that were returned hold their similarity
StoredAfterScoringInPlace(docs, returned) ==
    IF returned.kind # "list" THEN docs
    ELSE [i \in 1..Len(docs) |->
            IF \E j \in 1..Len(returned.val) :
                   returned.val[j].id = docs[i].id
            THEN LET j == CHOOSE j \in 1..Len(returned.val) :
                              returned.val[j].id = docs[i].id
                 IN  returned.val[j]
            ELSE docs[i]]

\* self.documents after a tier has built its result: the local tier scores
\* `dict(self.documents[idx])` (retriever.py:199-200) and the keyword tier
\* `dict(doc)` (retriever.py:236-237), shallow copies made for the caller, so
\* the stored documents are what they were
StoredAfterScoring(docs, returned) == docs

\* no concurrent retrieve calls and no requests in the serving process
ConcIdle ==
    /\ calls = <<>>
    /\ loop = 0
    /\ inflight = <<>>

\* __init__: _attach_model on the empty document list, then _load_documents,
\* which encodes the corpus when a model is attached (an encode error is
\* logged and leaves the embeddings None)
RetrInit ==
    /\ globalModel \in {None, TheModel}
    /\ model = globalModel
    /\ documents \in Corpora
    /\ embeddings \in
         IF model # None THEN {None, Encode(CorpusTexts(documents))} ELSE {None}
    /\ pc = "idle"
    /\ query_text = <<>>
    /\ k = 1
    /\ depth = 0
    /\ result = NoResult
    /\ trace = <<>>
    /\ passLog = <<>>
    /\ LlmIdle
    /\ NormIdle
    /\ ConcIdle
    /\ QueryIdle

\* app.main load_model: the startup hook sets the global model
LoadModel ==
    /\ UNCHANGED outsideRetriever
    /\ globalModel = None
    /\ globalModel' = TheModel
    /\ UNCHANGED <<model, documents, embeddings, pc, query_text, k, depth,
                   result, trace, passLog>>

\* a caller invokes retriever.retrieve(q, kk)
RetrieveCall ==
    /\ UNCHANGED outsideRetriever
    /\ pc = "idle"
    /\ \E q \in SampleQueries, kk \in 1..MaxK :
         /\ query_text' = q
         /\ k' = kk
    /\ pc' = "attach"
    /\ depth' = 0
    /\ result' = NoResult
    /\ trace' = <<>>
    /\ passLog' = <<>>
    /\ UNCHANGED <<globalModel, model, documents, embeddings>>

\* a corpus embedding pass (model.encode over the content of every document)
\* started at `site`, and whether it came back with the vectors
Pass(site, ok) == [site |-> site, ok |-> ok]

\* a guard that does not look at the cache
NeedsCorpusPassAlways(gm, m, docs, embs) ==
    gm # None /\ m # None /\ docs # <<>>

\* _attach_model, lines 27 and 37: the pass runs when the global model is set,
\* a model is attached, there are documents and the cache is missing
NeedsCorpusPass(gm, m, docs, embs) ==
    gm # None /\ m # None /\ docs # <<>> /\ embs = None

\* self._attach_model(): attach the global model when none is attached, and
\* encode the corpus when a model is attached and no embeddings are held
AttachModel ==
    /\ UNCHANGED outsideRetriever
    /\ pc = "attach"
    /\ model' = IF globalModel # None /\ model = None THEN globalModel ELSE model
    /\ IF NeedsCorpusPass(globalModel, model', documents, embeddings)
       THEN \E ok \in BOOLEAN :
              /\ embeddings' = IF ok THEN Encode(CorpusTexts(documents))
                               ELSE None
              /\ passLog' = Append(passLog, Pass("attach", ok))
       ELSE UNCHANGED <<embeddings, passLog>>
    /\ pc' = "check"
    /\ UNCHANGED <<globalModel, documents, query_text, k, depth, result, trace>>

\* retrieve, lines 156-162: the empty corpus and the absent model
CheckAvailable ==
    /\ UNCHANGED outsideRetriever
    /\ pc = "check"
    /\ IF documents = <<>>
       THEN /\ result' = PyList(<<>>)
            /\ pc' = "done"
            /\ UNCHANGED trace
       ELSE IF model = None
       THEN /\ result' = PyList(KeywordSearch(documents, query_text, k))
            /\ pc' = "done"
            /\ trace' = trace \o <<Entry("remote", "unavailable"),
                                   Entry("local", "unavailable"),
                                   Entry("keyword", "ok")>>
       ELSE /\ pc' = "remote"
            /\ UNCHANGED <<result, trace>>
    /\ documents' = StoredAfterScoring(documents, result')
    /\ UNCHANGED <<globalModel, model, embeddings, query_text, k, depth,
                   passLog>>

\* retrieve, lines 166-178: the remote vector search
RemoteSearch ==
    /\ UNCHANGED outsideRetriever
    /\ pc = "remote"
    /\ \E out \in {"unavailable", "failed", "rows"} :
         LET rows == MatchDocuments(documents, Embed(query_text),
                                    MatchThreshold, k)
         IN  CASE out = "unavailable" ->
                    /\ pc' = "local"
                    /\ trace' = Append(trace, Entry("remote", "unavailable"))
                    /\ UNCHANGED result
               [] out = "failed" ->
                    Recover("remote", Append(trace, Entry("remote", "failed")))
               [] out = "rows" /\ rows # <<>> ->
                    /\ pc' = "done"
                    /\ result' = PyList(rows)
                    /\ trace' = Append(trace, Entry("remote", "ok"))
               [] OTHER ->
                    /\ pc' = "local"
                    /\ trace' = Append(trace, Entry("remote", "empty"))
                    /\ UNCHANGED result
    /\ documents' = StoredAfterScoring(documents, result')
    /\ UNCHANGED <<globalModel, model, embeddings, query_text, k, depth,
                   passLog>>

\* retrieve, lines 181-203: the query embedding and the local similarity search
LocalSimilarity ==
    /\ UNCHANGED outsideRetriever
    /\ pc = "local"
    /\ \E out \in {"encode_failed", "similarity_failed", "ok"} :
         CASE out = "encode_failed" ->
                Recover("local", Append(trace, Entry("local", "failed")))
           [] out = "similarity_failed" /\ embeddings # None ->
                Recover("local", Append(trace, Entry("local", "failed")))
           [] out = "ok" /\ embeddings # None ->
                /\ pc' = "done"
                /\ result' = PyList(LocalSearch(documents, embeddings,
                                                query_text, k))
                /\ trace' = Append(trace, Entry("local", "ok"))
           [] OTHER ->
                /\ pc' = "ondemand"
                /\ UNCHANGED <<result, trace>>
    /\ documents' = StoredAfterScoring(documents, result')
    /\ UNCHANGED <<globalModel, model, embeddings, query_text, k, depth,
                   passLog>>

\* retrieve, lines 205-215: the on-demand corpus embedding pass, followed by
\* the nested self.retrieve(query_text, k)
OnDemandEmbeddings ==
    /\ UNCHANGED outsideRetriever
    /\ pc = "ondemand"
    /\ \E ok \in BOOLEAN :
         IF ok
         THEN /\ embeddings' = Encode(CorpusTexts(documents))
              /\ depth' = depth + 1
              /\ pc' = "attach"
              /\ trace' = Append(trace, Entry("local", "recurse"))
              /\ passLog' = Append(passLog, Pass("ondemand", TRUE))
              /\ UNCHANGED result
         ELSE /\ Recover("ondemand", Append(trace, Entry("local", "failed")))
              /\ passLog' = Append(passLog, Pass("ondemand", FALSE))
              /\ UNCHANGED <<embeddings, depth>>
    /\ documents' = StoredAfterScoring(documents, result')
    /\ UNCHANGED <<globalModel, model, query_text, k>>

\* the nested self.retrieve returns into the frame that called it (line 212);
\* an exception out of it is caught at line 213
Unwind ==
    /\ UNCHANGED outsideRetriever
    /\ pc = "done"
    /\ depth > 0
    /\ depth' = depth - 1
    /\ IF result = Raised
       THEN Recover("ondemand", trace)
       ELSE UNCHANGED <<pc, result, trace>>
    /\ documents' = StoredAfterScoring(documents, result')
    /\ UNCHANGED <<globalModel, model, embeddings, query_text, k, passLog>>

\* the outermost call has returned to its caller
RetrieveReturn ==
    /\ UNCHANGED outsideRetriever
    /\ pc = "done"
    /\ depth = 0
    /\ pc' = "idle"
    /\ result' = NoResult
    /\ trace' = <<>>
    /\ passLog' = <<>>
    /\ UNCHANGED <<globalModel, model, documents, embeddings, query_text, k,
                   depth>>

RetrNext ==
    \/ LoadModel
    \/ RetrieveCall
    \/ AttachModel
    \/ CheckAvailable
    \/ RemoteSearch
    \/ LocalSimilarity
    \/ OnDemandEmbeddings
    \/ Unwind
    \/ RetrieveReturn

SpecRetrieve == RetrInit /\ [][RetrNext]_vars

-----------------------------------------------------------------------------
(* Properties of retrieve *)

Finished == pc = "done" /\ depth = 0

LastTier == IF trace = <<>> THEN "none" ELSE trace[Len(trace)].tier

SomeFailure == \E i \in 1..Len(trace) : trace[i].out = "failed"

SimilarityOf(doc) ==
    IF "similarity" \in DOMAIN doc /\ doc["similarity"].kind \in {"int", "float"}
    THEN Hundredths(doc["similarity"]) ELSE -1

TierPrecedence(fallthrough) ==
    /\ \A i \in 1..Len(trace) :
          trace[i].tier = "local" =>
             /\ i > 1
             /\ trace[i - 1].tier = "remote"
             /\ trace[i - 1].out \in fallthrough
    /\ pc \in {"local", "ondemand"} =>
          /\ LastTier = "remote"
          /\ trace[Len(trace)].out \in fallthrough
    /\ \A i \in 1..Len(trace) :
          trace[i].tier = "keyword" =>
             /\ i > 1
             /\ trace[i - 1].tier = "local"
             /\ trace[i - 1].out \in {"unavailable", "failed"}
    /\ \A i \in 1..Len(trace) : trace[i].out = "ok" => i = Len(trace)

\* C5 as stated: the local tier is attempted only if the remote search was
\* unavailable or failed.
C5_StrictPrecedence == TierPrecedence({"unavailable", "failed"})

\* C5 (amended): the local tier is attempted only if the remote search was
\* unavailable, failed or returned no rows; the keyword tier only if the
\* provider is absent or the local tier failed; a tier that returned a result
\* is never followed by a lower tier in the same call.
C5_PrecedenceWithEmptyRemote ==
    TierPrecedence({"unavailable", "failed", "empty"})

\* the remote search returned no rows and the local tier answered
C5_Witness ==
    /\ Finished
    /\ \E i \in 1..Len(trace) : trace[i] = Entry("remote", "empty")
    /\ trace[Len(trace)] = Entry("local", "ok")

\* the score of C6, from the word sets
OverlapScore(doc, q) ==
    LET Q == WordSet(Lower(q))
        T == WordSet(Lower(doc.title.val))
        B == WordSet(Lower(doc.content.val))
    IN  2 * Cardinality(Q \cap T) + Cardinality(Q \cap B)

\* the corpus positions with a positive score, by descending score, equal
\* scores in corpus order
RankedPositions(docs, q) ==
    LET pos == { i \in 1..Len(docs) : OverlapScore(docs[i], q) > 0 }
        n == Cardinality(pos)
    IN  CHOOSE seq \in [1..n -> pos] :
          \A a \in 1..n, b \in 1..n :
             a < b =>
               \/ OverlapScore(docs[seq[a]], q) > OverlapScore(docs[seq[b]], q)
               \/ /\ OverlapScore(docs[seq[a]], q) = OverlapScore(docs[seq[b]], q)
                  /\ seq[a] < seq[b]

\* C6: the keyword tier returns exactly the first k of the documents with a
\* positive score 2 x |query /\ title words| + |query /\ content words|, by
\* descending score, ties in corpus order; a document sharing no word with the
\* query is never returned.
C6_KeywordTierExact ==
    (pc = "done" /\ LastTier = "keyword") =>
        LET rank == RankedPositions(documents, query_text)
            n == Min(k, Len(rank))
        IN  /\ result.kind = "list"
            /\ Len(result.val) = n
            /\ \A j \in 1..n :
                  result.val[j] =
                     Put(documents[rank[j]], "similarity",
                         PyInt(OverlapScore(documents[rank[j]], query_text)))
            /\ \A j \in 1..Len(result.val) :
                  WordSet(Lower(query_text)) \cap
                     (WordSet(Lower(result.val[j].title.val)) \cup
                      WordSet(Lower(result.val[j].content.val))) # {}

\* the keyword tier returned two different documents of equal score, while a
\* document of the corpus or the cut at k is left out
C6_Witness ==
    /\ pc = "done"
    /\ LastTier = "keyword"
    /\ Len(result.val) = 2
    /\ result.val[1].id # result.val[2].id
    /\ SimilarityOf(result.val[1]) = SimilarityOf(result.val[2])

-----------------------------------------------------------------------------
(* More Python values and operations *)

PyBool(b) == [kind |-> "bool", val |-> b]

\* an exception of class e leaving a function
Raise(e) == [kind |-> "raise", val |-> e]

IsRaise(v) == v.kind = "raise"

\* bool(v)
Truthy(v) ==
    CASE v.kind = "none" -> FALSE
      [] v.kind = "bool" -> v.val
      [] v.kind \in {"int", "float"} -> v.val # 0
      [] v.kind \in {"str", "list"} -> v.val # <<>>
      [] v.kind = "dict" -> DOMAIN v.val # {}
      [] OTHER -> TRUE

\* w in s, for two str
Contains(s, w) ==
    \E i \in 0..(Len(s) - Len(w)) : \A j \in 1..Len(w) : s[i + j] = w[j]

\* any(word in s for word in words)
AnyIn(words, s) == \E n \in 1..Len(words) : Contains(s, words[n])

\* str.strip()
Strip(s) ==
    LET inside == { i \in 1..Len(s) : ~IsSpace(s[i]) }
    IN  IF inside = {} THEN <<>>
        ELSE SubSeq(s, CHOOSE i \in inside : \A j \in inside : i <= j,
                       CHOOSE i \in inside : \A j \in inside : i >= j)

\* sep.join(parts)
RECURSIVE Join(_, _)
Join(sep, parts) ==
    IF parts = <<>> THEN <<>>
    ELSE IF Len(parts) = 1 THEN parts[1]
    ELSE parts[1] \o sep \o Join(sep, Tail(parts))

\* the key of a dict, from its spelling; a key the program never reads or
\* writes is held as "_other"
KeyOf(chars) ==
    IF \E name \in DOMAIN KeyChars : KeyChars[name] = chars
    THEN CHOOSE name \in DOMAIN KeyChars : KeyChars[name] = chars
    ELSE "_other"

DigitChars == <<"0","1","2","3","4","5","6","7","8","9">>

IsDigit(c) == \E i \in DOMAIN DigitChars : DigitChars[i] = c

DigitVal(c) == (CHOOSE i \in DOMAIN DigitChars : DigitChars[i] = c) - 1

\* str(n) for an int n >= 0
RECURSIVE NatStr(_)
NatStr(n) ==
    IF n < 10 THEN <<DigitChars[n + 1]>>
    ELSE NatStr(n \div 10) \o <<DigitChars[(n % 10) + 1]>>

\* str(v), for the values a source field holds in the samples: None, a str, a
\* bool, an int, or a float that is a whole number of hundredths
StrOf(v) ==
    CASE v.kind = "str" -> v.val
      [] v.kind = "none" -> QueryText.none_text
      [] v.kind = "bool" ->
            IF v.val THEN QueryText.true_text ELSE QueryText.false_text
      [] v.kind = "int" ->
            IF v.val < 0 THEN <<"-">> \o NatStr(0 - v.val) ELSE NatStr(v.val)
      [] v.kind = "float" /\ v.ulp = 0 /\ v.val >= 0 ->
            NatStr(v.val \div 100) \o <<".">> \o
               (IF v.val % 10 = 0 THEN NatStr((v.val % 100) \div 10)
                ELSE <<DigitChars[((v.val % 100) \div 10) + 1],
                       DigitChars[(v.val % 10) + 1]>>)

-----------------------------------------------------------------------------
(* json.loads: objects, arrays, strings, numbers without exponent, null,   *)
(* true and false.  A parse returns ok, the value and the position after   *)
(* it.                                                                     *)

JsonSpace(c) == c \in {" ", "\n", "\t", "\r"}

\* the first position from i on that holds no whitespace (Len(s) + 1 if none)
SkipWs(s, i) ==
    LET stop == { j \in i..(Len(s) + 1) : j = Len(s) + 1 \/ ~JsonSpace(s[j]) }
    IN  CHOOSE j \in stop : \A x \in stop : j <= x

ParseFail == [ok |-> FALSE, val |-> None, pos |-> 0]
Parsed(v, p) == [ok |-> TRUE, val |-> v, pos |-> p]

HasPrefixAt(s, i, w) ==
    /\ i + Len(w) - 1 <= Len(s)
    /\ \A j \in 1..Len(w) : s[i + j - 1] = w[j]

\* the characters of a string up to its closing quote, from position i; a
\* backslash escapes the character after it (\n, \t, or the character itself;
\* a doubled backslash is outside the samples)
ParseChars(s, i) ==
    LET quotes == { j \in i..Len(s) :
                      s[j] = "\"" /\ (j = i \/ s[j - 1] # "\\") }
    IN  IF quotes = {} THEN ParseFail
        ELSE LET close == CHOOSE j \in quotes : \A x \in quotes : j <= x
                 keep == { p \in i..(close - 1) : s[p] # "\\" }
                 at(n) == CHOOSE p \in keep :
                             Cardinality({ q \in keep : q <= p }) = n
                 char(p) == IF p > i /\ s[p - 1] = "\\"
                            THEN CASE s[p] = "n" -> "\n"
                                   [] s[p] = "t" -> "\t"
                                   [] OTHER -> s[p]
                            ELSE s[p]
             IN  IF Cardinality(keep) = close - i
                 THEN Parsed(SubSeq(s, i, close - 1), close + 1)
                 ELSE Parsed([n \in 1..Cardinality(keep) |-> char(at(n))],
                             close + 1)

\* the first position from i on that holds no digit (Len(s) + 1 if none)
DigitsEnd(s, i) ==
    LET stop == { j \in i..(Len(s) + 1) : j = Len(s) + 1 \/ ~IsDigit(s[j]) }
    IN  CHOOSE j \in stop : \A x \in stop : j <= x

\* the value of the digits s[i..j-1]
RECURSIVE NatVal(_, _, _)
NatVal(s, i, j) ==
    IF i >= j THEN 0 ELSE NatVal(s, i, j - 1) * 10 + DigitVal(s[j - 1])

\* a number at position i: an int, or a float held in hundredths
ParseNumber(s, i) ==
    LET neg == s[i] = "-"
        a == IF neg THEN i + 1 ELSE i
        b == DigitsEnd(s, a)
        whole == NatVal(s, a, b)
        sign == IF neg THEN -1 ELSE 1
    IN  IF b = a THEN ParseFail
        ELSE IF b <= Len(s) /\ s[b] = "."
        THEN LET c == DigitsEnd(s, b + 1)
                 tenths == IF b + 1 < c THEN DigitVal(s[b + 1]) ELSE 0
                 hundredths == IF b + 2 < c THEN DigitVal(s[b + 2]) ELSE 0
             IN  IF c = b + 1 THEN ParseFail
                 ELSE Parsed(PyFloat(sign * (whole * 100 + tenths * 10
                                             + hundredths)), c)
        ELSE Parsed(PyInt(sign * whole), b)

RECURSIVE ParseValue(_, _)
RECURSIVE ParseMembers(_, _, _)
RECURSIVE ParseElements(_, _, _)
ParseValue(s, i0) ==
    LET i == SkipWs(s, i0)
    IN  IF i > Len(s) THEN ParseFail
        ELSE IF s[i] = "{"
        THEN LET j == SkipWs(s, i + 1)
             IN  IF j <= Len(s) /\ s[j] = "}" THEN Parsed(PyDict(<<>>), j + 1)
                 ELSE ParseMembers(s, j, <<>>)
        ELSE IF s[i] = "["
        THEN LET j == SkipWs(s, i + 1)
             IN  IF j <= Len(s) /\ s[j] = "]" THEN Parsed(PyList(<<>>), j + 1)
                 ELSE ParseElements(s, j, <<>>)
        ELSE IF s[i] = "\""
        THEN LET r == ParseChars(s, i + 1)
             IN  IF r.ok THEN Parsed(PyStr(r.val), r.pos) ELSE ParseFail
        ELSE IF IsDigit(s[i]) \/ s[i] = "-" THEN ParseNumber(s, i)
        ELSE IF HasPrefixAt(s, i, <<"n","u","l","l">>) THEN Parsed(None, i + 4)
        ELSE IF HasPrefixAt(s, i, <<"t","r","u","e">>)
        THEN Parsed(PyBool(TRUE), i + 4)
        ELSE IF HasPrefixAt(s, i, <<"f","a","l","s","e">>)
        THEN Parsed(PyBool(FALSE), i + 5)
        ELSE ParseFail

\* "key": value pairs up to the closing brace; d holds the pairs read so far
ParseMembers(s, i, d) ==
    IF i > Len(s) \/ s[i] # "\"" THEN ParseFail
    ELSE LET key == ParseChars(s, i + 1)
         IN  IF ~key.ok THEN ParseFail
             ELSE LET c == SkipWs(s, key.pos)
                  IN  IF c > Len(s) \/ s[c] # ":" THEN ParseFail
                      ELSE LET v == ParseValue(s, c + 1)
                           IN  IF ~v.ok THEN ParseFail
                               ELSE LET e == SkipWs(s, v.pos)
                                        d2 == Put(d, KeyOf(key.val), v.val)
                                    IN  IF e > Len(s) THEN ParseFail
                                        ELSE IF s[e] = "}"
                                        THEN Parsed(PyDict(d2), e + 1)
                                        ELSE IF s[e] = ","
                                        THEN ParseMembers(s, SkipWs(s, e + 1), d2)
                                        ELSE ParseFail

\* values up to the closing bracket; l holds the values read so far
ParseElements(s, i, l) ==
    LET v == ParseValue(s, i)
    IN  IF ~v.ok THEN ParseFail
        ELSE LET e == SkipWs(s, v.pos)
                 l2 == Append(l, v.val)
             IN  IF e > Len(s) THEN ParseFail
                 ELSE IF s[e] = "]" THEN Parsed(PyList(l2), e + 1)
                 ELSE IF s[e] = "," THEN ParseElements(s, e + 1, l2)
                 ELSE ParseFail

\* json.loads(text): ok and the value, or not ok (json.JSONDecodeError)
JsonLoads(text) ==
    LET r == ParseValue(text, 1)
    IN  IF r.ok /\ SkipWs(text, r.pos) > Len(text)
        THEN [ok |-> TRUE, val |-> r.val]
        ELSE [ok |-> FALSE, val |-> None]


-----------------------------------------------------------------------------
(* LLMClient: _validate_response and the deterministic fallback *)

\* field in response (llm.py:228), field being the spelling of a key: a key of
\* a dict, a substring of a str, an element of a list
PyIn(field, v) ==
    CASE v.kind = "dict" -> KeyOf(field) \in DOMAIN v.val
      [] v.kind = "str" -> Contains(v.val, field)
      [] v.kind = "list" -> \E i \in 1..Len(v.val) : v.val[i] = PyStr(field)

\* a validator that asks for the answer field only
ValidateResponseAnswerOnly(resp) ==
    IF resp.kind \in {"dict", "str", "list"}
    THEN PyBool(PyIn(LlmWords.required_fields[1], resp))
    ELSE Raise("TypeError")

\* _validate_response: `in` raises TypeError on a value that is not iterable
ValidateResponse(resp) ==
    IF resp.kind \in {"dict", "str", "list"}
    THEN PyBool(\A n \in 1..Len(LlmWords.required_fields) :
                   PyIn(LlmWords.required_fields[n], resp))
    ELSE Raise("TypeError")

\* an answer generator that looks for the pest terms before the irrigation
\* terms
GenerateContextualAnswerPestFirst(query, snippets, image_ctx) ==
    LET query_lower == Lower(query)
        T == LlmText
        two == Join(T.space, Prefix(snippets, 2))
        WithSnippet(base, default) ==
            base \o T.space \o (IF snippets # <<>> THEN snippets[1] ELSE default)
    IN  IF Truthy(image_ctx)
        THEN IF AnyIn(LlmWords.visual_problem, query_lower)
             THEN T.img_issue_pre \o image_ctx.val \o T.img_issue_mid \o
                  (IF snippets # <<>> THEN two ELSE T.img_issue_default)
             ELSE T.img_generic_pre \o image_ctx.val \o T.img_generic_mid \o
                  (IF snippets # <<>> THEN two ELSE T.img_generic_default)
        ELSE IF AnyIn(LlmWords.pest, query_lower)
        THEN WithSnippet(T.pest_base, T.pest_default)
        ELSE IF AnyIn(LlmWords.irrigation, query_lower)
        THEN WithSnippet(T.irrigation_base, T.irrigation_default)
        ELSE IF AnyIn(LlmWords.planting, query_lower)
        THEN WithSnippet(T.planting_base, T.planting_default)
        ELSE IF AnyIn(LlmWords.market, query_lower)
        THEN WithSnippet(T.market_base, T.market_default)
        ELSE IF snippets # <<>>
        THEN T.generic_pre \o two
        ELSE T.referral

\* an action generator that returns every item of the matched categories
GenerateActionsUncut(query, image_ctx) ==
    LET query_lower == Lower(query)
        actions ==
            (IF Truthy(image_ctx) \/ AnyIn(LlmWords.act_problem, query_lower)
             THEN LlmActions.problem ELSE <<>>) \o
            (IF AnyIn(LlmWords.act_irrigation, query_lower)
             THEN LlmActions.irrigation ELSE <<>>) \o
            (IF AnyIn(LlmWords.act_planting, query_lower)
             THEN LlmActions.planting ELSE <<>>) \o
            (IF AnyIn(LlmWords.act_market, query_lower)
             THEN LlmActions.market ELSE <<>>)
        chosen == IF actions = <<>> THEN LlmActions.default ELSE actions
    IN  [i \in 1..Len(chosen) |-> PyStr(chosen[i])]

\* _generate_contextual_answer; snippets is a sequence of str
GenerateContextualAnswer(query, snippets, image_ctx) ==
    LET query_lower == Lower(query)
        T == LlmText
        two == Join(T.space, Prefix(snippets, 2))
        WithSnippet(base, default) ==
            base \o T.space \o (IF snippets # <<>> THEN snippets[1] ELSE default)
    IN  IF Truthy(image_ctx)
        THEN IF AnyIn(LlmWords.visual_problem, query_lower)
             THEN T.img_issue_pre \o image_ctx.val \o T.img_issue_mid \o
                  (IF snippets # <<>> THEN two ELSE T.img_issue_default)
             ELSE T.img_generic_pre \o image_ctx.val \o T.img_generic_mid \o
                  (IF snippets # <<>> THEN two ELSE T.img_generic_default)
        ELSE IF AnyIn(LlmWords.irrigation, query_lower)
        THEN WithSnippet(T.irrigation_base, T.irrigation_default)
        ELSE IF AnyIn(LlmWords.pest, query_lower)
        THEN WithSnippet(T.pest_base, T.pest_default)
        ELSE IF AnyIn(LlmWords.planting, query_lower)
        THEN WithSnippet(T.planting_base, T.planting_default)
        ELSE IF AnyIn(LlmWords.market, query_lower)
        THEN WithSnippet(T.market_base, T.market_default)
        ELSE IF snippets # <<>>
        THEN T.generic_pre \o two
        ELSE T.referral

\* _generate_actions
GenerateActions(query, image_ctx) ==
    LET query_lower == Lower(query)
        actions ==
            (IF Truthy(image_ctx) \/ AnyIn(LlmWords.act_problem, query_lower)
             THEN LlmActions.problem ELSE <<>>) \o
            (IF AnyIn(LlmWords.act_irrigation, query_lower)
             THEN LlmActions.irrigation ELSE <<>>) \o
            (IF AnyIn(LlmWords.act_planting, query_lower)
             THEN LlmActions.planting ELSE <<>>) \o
            (IF AnyIn(LlmWords.act_market, query_lower)
             THEN LlmActions.market ELSE <<>>)
        chosen == IF actions = <<>> THEN LlmActions.default ELSE actions
    IN  [i \in 1..Min(3, Len(chosen)) |-> PyStr(chosen[i])]

\* min(0.8, 0.4 + n * 0.1) computed over the decimals, without rounding
ConfidenceForExact(n) == PyFloat(Min(80, 40 + n * 10))

\* a confidence that starts at 0.5
ConfidenceForFromHalf(n) == PyFloat(Min(80, 50 + n * 10))

\* a confidence that falls with the number of snippets
ConfidenceForFalling(n) ==
    [kind |-> "float", val |-> Max(0, 70 - n * 10),
     ulp |-> IF n \in {0, 1} THEN 1 ELSE 0]

\* min(0.8, 0.4 + n * 0.1) in double precision: 0.4, 0.5, 0.6000000000000001,
\* 0.7000000000000001, then 0.8
ConfidenceFor(n) ==
    [kind |-> "float", val |-> Min(80, 40 + n * 10),
     ulp |-> IF n \in {2, 3} THEN 1 ELSE 0]

\* `if doc.get("snippet")` (llm.py:131)
HasSnippet(doc) == Truthy(Get(doc.val, "snippet", None))

\* the entry appended to sources (llm.py:133-137), for a document whose
\* snippet, if it has one, is a str
SourceOf(doc) ==
    PyDict([title |-> Get(doc.val, "title", PyStr(LlmText.agri_resource)),
            url |-> Get(doc.val, "url", PyStr(<<>>)),
            snippet |-> PyStr(Prefix(Get(doc.val, "snippet", PyStr(<<>>)).val,
                                     100) \o LlmText.ellipsis)])

\* the deterministic fallback marking its result as an answer of the backend
FallbackModeAi(demo) == LlmText.mode_ai

\* the deterministic fallback writing "fallback" whatever the configuration
FallbackModeAlwaysFallback(demo) == LlmText.mode_fallback

\* "demo" if DEMO_MODE else "fallback" (llm.py:149)
FallbackMode(demo) ==
    IF demo THEN LlmText.mode_demo ELSE LlmText.mode_fallback

\* _deterministic_fallback with DEMO_MODE = demo.  doc.get("snippet", "")[:100]
\* + "..." raises TypeError for a snippet that is present and not a str.
DeterministicFallback(demo, prompt, docs, image_ctx) ==
    LET first == Prefix(docs.val, 3)
        withSnippet == SelectSeq(first, HasSnippet)
        context_snippets ==
            [i \in 1..Len(withSnippet) |-> withSnippet[i].val.snippet.val]
    IN  IF \E i \in 1..Len(first) :
              /\ "snippet" \in DOMAIN first[i].val
              /\ first[i].val.snippet.kind # "str"
        THEN Raise("TypeError")
        ELSE PyDict(
               [answer |-> PyStr(GenerateContextualAnswer(
                                    prompt, context_snippets, image_ctx)),
                confidence |-> ConfidenceFor(Len(context_snippets)),
                actions |-> PyList(GenerateActions(prompt, image_ctx)),
                sources |-> PyList([i \in 1..Len(first) |-> SourceOf(first[i])]),
                meta |-> PyDict(
                   [mode |-> PyStr(FallbackMode(demo)),
                    retrieved_docs |-> PyInt(Len(docs.val))])])

\* the wrapping of a backend text that is not JSON (llm.py:113-119)
RawWrap(hf, hf_model) ==
    PyDict([answer |-> PyStr(Strip(hf.val)),
            confidence |-> PyFloat(70),
            actions |-> PyList(<<>>),
            sources |-> PyList(<<>>),
            meta |-> PyDict([mode |-> PyStr(LlmText.mode_ai),
                             model |-> hf_model])])

\* synthesize_answer from line 104 on, hf being what query_huggingface
\* returned (None when it was not called).  Only json.JSONDecodeError is
\* caught; parsed["meta"] = ... raises TypeError on a str and on a list.
SynthesizeAnswer(demo, hf_model, hf, prompt, docs, image_ctx) ==
    LET fallback == DeterministicFallback(demo, prompt, docs, image_ctx)
    IN  IF ~demo /\ Truthy(hf)
        THEN LET loaded == JsonLoads(hf.val)
                 valid == ValidateResponse(loaded.val)
             IN  IF ~loaded.ok THEN RawWrap(hf, hf_model)
                 ELSE IF IsRaise(valid) THEN valid
                 ELSE IF ~valid.val THEN fallback
                 ELSE IF loaded.val.kind # "dict" THEN Raise("TypeError")
                 ELSE PyDict(Put(loaded.val.val, "meta",
                                 PyDict([mode |-> PyStr(LlmText.mode_ai),
                                         model |-> hf_model])))
        ELSE fallback


-----------------------------------------------------------------------------
(* routes/query.py: ensure_response_structure *)

\* max(0.0, min(1.0, float(c))) for an int, a bool or a float c
ClampConfidence(c) ==
    LET x == CASE c.kind = "int" -> PyFloat(c.val * 100)
               [] c.kind = "bool" -> PyFloat(IF c.val THEN 100 ELSE 0)
               [] OTHER -> c
        low == IF x.val < 100 \/ (x.val = 100 /\ x.ulp < 0)
               THEN x ELSE PyFloat(100)
    IN  IF low.val > 0 \/ (low.val = 0 /\ low.ulp > 0) THEN low ELSE PyFloat(0)

\* the entry built from a source that is a dict (query.py:264-268)
ValidatedSource(source) ==
    PyDict([title |-> PyStr(StrOf(Get(source.val, "title",
                                      PyStr(QueryText.default_title)))),
            url |-> PyStr(StrOf(Get(source.val, "url", PyStr(<<>>)))),
            snippet |-> PyStr(StrOf(Get(source.val, "snippet", PyStr(<<>>))))])

IsDict(v) == v.kind = "dict"

\* validated_sources appended to what response["sources"] already holds,
\* instead of replacing it
ValidatedSourcesAppended(sources) ==
    LET dicts == SelectSeq(sources, IsDict)
    IN  sources \o [i \in 1..Len(dicts) |-> ValidatedSource(dicts[i])]

\* a loop that builds an entry for every element, with the defaults for an
\* element that is not a dict
ValidatedSourcesEveryElement(sources) ==
    [i \in 1..Len(sources) |->
        IF IsDict(sources[i]) THEN ValidatedSource(sources[i])
        ELSE ValidatedSource(PyDict(<<>>))]

\* validated_sources (query.py:261-268): the sources that are dicts, rebuilt
ValidatedSources(sources) ==
    LET dicts == SelectSeq(sources, IsDict)
    IN  [i \in 1..Len(dicts) |-> ValidatedSource(dicts[i])]

\* ensure_response_structure: the mapping it leaves in `response` and returns
EnsureResponseStructure(resp) ==
    LET d0 == resp.val
        d1 == IF ~Truthy(Get(d0, "answer", None))
              THEN Put(d0, "answer", PyStr(QueryText.default_answer)) ELSE d0
        c  == Get(d1, "confidence", None)
        d2 == Put(d1, "confidence",
                  IF c.kind \in {"int", "float", "bool"}
                  THEN ClampConfidence(c) ELSE PyFloat(50))
        d3 == IF Get(d2, "actions", None).kind # "list"
              THEN Put(d2, "actions",
                       PyList([i \in 1..Len(QueryActions.default) |->
                                 PyStr(QueryActions.default[i])]))
              ELSE d2
        d4 == IF Get(d3, "sources", None).kind # "list"
              THEN Put(d3, "sources", PyList(<<>>)) ELSE d3
        d5 == IF Get(d4, "meta", None).kind # "dict"
              THEN Put(d4, "meta", PyDict(<<>>)) ELSE d4
    IN  PyDict(Put(d5, "sources", PyList(ValidatedSources(d5.sources.val))))


-----------------------------------------------------------------------------
(* synthesize_answer with query_huggingface, followed by                   *)
(* ensure_response_structure as in query_assistant                         *)

DocWheat ==
    PyDict([id |-> PyStr(<<"1">>),
            title |-> PyStr(SynthSamples.title_wheat),
            url |-> PyStr(SynthSamples.url),
            snippet |-> PyStr(SynthSamples.snip_short)])

\* no title and no url; the snippet is longer than 100 characters
DocSoil ==
    PyDict([id |-> PyStr(<<"2">>),
            content |-> PyStr(SynthSamples.content_soil),
            snippet |-> PyStr(SynthSamples.snip_long)])

\* a row whose snippet column is null
DocNullSnippet ==
    PyDict([id |-> PyStr(<<"3">>),
            title |-> PyStr(SynthSamples.title_wheat),
            content |-> PyStr(SynthSamples.content_soil),
            snippet |-> None])

\* a row without the snippet key
DocContentOnly ==
    PyDict([id |-> PyStr(<<"4">>),
            title |-> PyStr(SynthSamples.title_wheat),
            content |-> PyStr(SynthSamples.content_soil)])

SampleRetrieved ==
    { PyList(<<>>),
      PyList(<<DocWheat>>),
      PyList(<<DocWheat, DocSoil>>),
      PyList(<<DocSoil, DocWheat, DocSoil>>),
      PyList(<<DocNullSnippet>>),
      PyList(<<DocContentOnly, DocWheat>>),
      PyList(<<DocWheat, DocSoil, DocContentOnly, DocWheat>>) }

\* the last two: "insect on seed" and "when to sow"
SamplePrompts ==
    { SynthSamples.q_irrigate, SynthSamples.q_mixed, SynthSamples.q_market,
      SynthSamples.q_other,
      <<"i","n","s","e","c","t"," ","o","n"," ","s","e","e","d">>,
      <<"w","h","e","n"," ","t","o"," ","s","o","w">> }

SampleImageContexts == { None, PyStr(SynthSamples.image_leaf) }

\* the texts the backend generates in the samples, the empty text included
GeneratedTexts == { HfSamples[f] : f \in DOMAIN HfSamples } \cup { <<>> }

\* the configurations of app.config
ConfigInit ==
    /\ DEMO_MODE \in BOOLEAN
    /\ HF_API_KEY \in { None, PyStr(<<"k">>) }
    /\ HF_MODEL \in { None, PyStr(SynthSamples.hf_model) }

SynthInit ==
    /\ ConfigInit
    /\ spc = "idle"
    /\ prompt_text = <<>>
    /\ retrieved_docs = PyList(<<>>)
    /\ image_context = None
    /\ attempt = 0
    /\ hfLog = <<>>
    /\ hf_response = None
    /\ response = NoResult
    /\ globalModel = None /\ model = None /\ documents = <<>>
    /\ embeddings = None /\ pc = "idle" /\ query_text = <<>> /\ k = 1
    /\ depth = 0 /\ result = NoResult /\ trace = <<>> /\ passLog = <<>>
    /\ NormIdle
    /\ ConcIdle
    /\ QueryIdle

\* what the steps of synthesize_answer leave alone
outsideSynth == <<retrVars, configVars, given, previous, passes, queryVars,
                  concVars>>

\* a caller invokes llm_client.synthesize_answer(prompt, docs, image_context);
\* line 97 skips the backend in demo mode
SynthesizeCall ==
    /\ spc = "idle"
    /\ \E p \in SamplePrompts, docs \in SampleRetrieved,
          img \in SampleImageContexts :
         /\ prompt_text' = p
         /\ retrieved_docs' = docs
         /\ image_context' = img
    /\ spc' = IF DEMO_MODE THEN "parse" ELSE "query"
    /\ attempt' = 0
    /\ hfLog' = <<>>
    /\ hf_response' = None
    /\ response' = NoResult
    /\ UNCHANGED <<candidate, normalized>>
    /\ UNCHANGED outsideSynth

\* a guard that looks at the key only
BackendConfiguredKeyOnly(api_key, mdl) == Truthy(api_key)

\* the guard of query_huggingface (line 35) lets the call go on: both the key
\* and the model identifier are set
BackendConfigured(api_key, mdl) == Truthy(api_key) /\ Truthy(mdl)

\* a loop over range(5)
LoopContinuesFive(n) == n < 5

\* for attempt in range(3): after n passes that asked for another one, the
\* loop makes the next pass
LoopContinues(n) == n < 3

\* query_huggingface, lines 35-37: no request without a key and a model
HfCheckConfig ==
    /\ spc = "query"
    /\ spc' = IF ~BackendConfigured(HF_API_KEY, HF_MODEL) THEN "parse"
              ELSE "post"
    /\ UNCHANGED <<prompt_text, retrieved_docs, image_context, attempt, hfLog,
                   hf_response, response, candidate, normalized>>
    /\ UNCHANGED outsideSynth

HfEntry(n, outcome, sleep) == [attempt |-> n, outcome |-> outcome,
                               sleep |-> sleep]

\* one pass of the loop of query_huggingface (lines 55-84): a request and what
\* follows from its outcome; the loop ends after range(3) and None is returned
HfPost ==
    /\ spc = "post"
    /\ \E outcome \in {"generated", "format", "loading", "status", "exception"} :
         CASE outcome = "generated" ->
                \E t \in GeneratedTexts :
                  /\ hf_response' = PyStr(t)
                  /\ hfLog' = Append(hfLog, HfEntry(attempt, outcome, 0))
                  /\ spc' = "parse"
                  /\ UNCHANGED attempt
           [] outcome \in {"format", "status"} ->
                /\ hf_response' = None
                /\ hfLog' = Append(hfLog, HfEntry(attempt, outcome, 0))
                /\ spc' = "parse"
                /\ UNCHANGED attempt
           [] OTHER ->
                /\ hfLog' = Append(hfLog,
                     HfEntry(attempt, outcome,
                             IF outcome = "loading" THEN 5 * (attempt + 1)
                             ELSE 2 * (attempt + 1)))
                /\ attempt' = attempt + 1
                /\ spc' = IF LoopContinues(attempt + 1) THEN "post"
                          ELSE "parse"
                /\ UNCHANGED hf_response
    /\ UNCHANGED <<prompt_text, retrieved_docs, image_context, response,
                   candidate, normalized>>
    /\ UNCHANGED outsideSynth

\* synthesize_answer, lines 104-122
Synthesize ==
    /\ spc = "parse"
    /\ response' = SynthesizeAnswer(DEMO_MODE, HF_MODEL, hf_response,
                                    prompt_text, retrieved_docs, image_context)
    /\ spc' = "done"
    /\ UNCHANGED <<prompt_text, retrieved_docs, image_context, attempt, hfLog,
                   hf_response, candidate, normalized>>
    /\ UNCHANGED outsideSynth

\* the caller passes the mapping it got to ensure_response_structure
\* (query.py:97), which works on it in place
NormalizeSynthesized ==
    /\ spc = "done"
    /\ ~IsRaise(response)
    /\ response' = EnsureResponseStructure(response)
    /\ candidate' = response'
    /\ normalized' = response'
    /\ spc' = "normalized"
    /\ UNCHANGED <<prompt_text, retrieved_docs, image_context, attempt, hfLog,
                   hf_response>>
    /\ UNCHANGED outsideSynth

\* the call is over; the next one may start
SynthesizeReturn ==
    /\ spc \in {"done", "normalized"}
    /\ spc' = "idle"
    /\ prompt_text' = <<>>
    /\ retrieved_docs' = PyList(<<>>)
    /\ image_context' = None
    /\ attempt' = 0
    /\ hfLog' = <<>>
    /\ hf_response' = None
    /\ response' = NoResult
    /\ candidate' = NoResult
    /\ normalized' = NoResult
    /\ UNCHANGED outsideSynth

SynthNext ==
    \/ SynthesizeCall
    \/ HfCheckConfig
    \/ HfPost
    \/ Synthesize
    \/ NormalizeSynthesized
    \/ SynthesizeReturn

SpecSynth == SynthInit /\ [][SynthNext]_vars


-----------------------------------------------------------------------------
(* Properties of synthesize_answer *)

\* a confidence within [0, 1]
InUnitInterval(c) ==
    /\ c.kind \in {"int", "float"}
    /\ Hundredths(c) >= 0
    /\ Hundredths(c) <= 100
    /\ (c.kind = "float" /\ Hundredths(c) = 100) => c.ulp <= 0
    /\ (c.kind = "float" /\ Hundredths(c) = 0) => c.ulp >= 0

\* C1: whatever the query, the retrieved documents, the visual context and
\* the outcome of the generative backend, the result of synthesize_answer
\* passed through ensure_response_structure has a non-empty answer, a
\* confidence in [0,1], at most 3 actions and source snippets of at most 103
\* characters.
C1_NormalizedSynthesisBounded ==
    spc = "normalized" =>
        LET r == normalized.val
        IN  /\ Truthy(r.answer)
            /\ InUnitInterval(r.confidence)
            /\ Len(r.actions.val) <= 3
            /\ \A i \in 1..Len(r.sources.val) :
                  Len(r.sources.val[i].val.snippet.val) <= 103

\* C2: synthesize_answer never raises; it returns a response mapping for
\* every backend text and every document list.
C2_SynthesizeNeverRaises ==
    spc = "done" => response.kind = "dict"

-----------------------------------------------------------------------------
(* ensure_response_structure called on candidate mappings, twice over *)

Absent == [kind |-> "absent", val |-> <<>>]

AnswerOptions ==
    << Absent, None, PyStr(<<>>), PyStr(<<"o", "k">>),
       PyList(<<PyStr(<<"o", "k">>)>>) >>

ConfidenceOptions ==
    << Absent, PyStr(<<"h", "i", "g", "h">>), PyFloat(0 - 50),
       ConfidenceFor(2), PyFloat(150), PyInt(1), PyBool(TRUE) >>

ActionsOptions ==
    << Absent, None, PyList(<<>>),
       PyList(<<PyStr(<<"a">>), PyStr(<<"b">>), PyStr(<<"c">>),
                PyStr(<<"d">>)>>),
       PyList(<<PyInt(5)>>) >>

SourcesOptions ==
    << Absent, PyStr(<<"x">>), PyList(<<>>),
       PyList(<<PyDict([title |-> PyStr(<<"t">>), url |-> PyStr(<<"u">>),
                        snippet |-> PyStr(<<"s">>)])>>),
       PyList(<<PyInt(5),
                PyDict([title |-> None, snippet |-> PyFloat(125),
                        id |-> PyInt(7)])>>),
       PyList(<<PyDict([title |-> PyStr(<<"t">>)]), PyStr(<<"x">>),
                PyDict([url |-> PyStr(<<"u">>)])>>) >>

MetaOptions ==
    << Absent, None, PyDict(<<>>), PyDict([mode |-> PyStr(LlmText.mode_ai)]) >>

\* the mapping holding the fields that are not Absent
MkCandidate(a, c, ac, s, m) ==
    LET all == [answer |-> a, confidence |-> c, actions |-> ac,
                sources |-> s, meta |-> m]
        present == { f \in DOMAIN all : all[f].kind # "absent" }
    IN  PyDict([f \in present |-> all[f]])

NormInit ==
    /\ NormIdle
    /\ ConcIdle
    /\ globalModel = None /\ model = None /\ documents = <<>>
    /\ embeddings = None /\ pc = "idle" /\ query_text = <<>> /\ k = 1
    /\ depth = 0 /\ result = NoResult /\ trace = <<>> /\ passLog = <<>>
    /\ LlmIdle
    /\ QueryIdle

outsideNorm == <<retrVars, configVars, callVars, hfVars, queryVars,
                 concVars>>

\* ensure_response_structure(candidate): it assigns into the mapping it was
\* given and returns that mapping
NormalizeCall ==
    /\ passes = 0
    /\ \E a \in 1..Len(AnswerOptions), c \in 1..Len(ConfidenceOptions),
          ac \in 1..Len(ActionsOptions), s \in 1..Len(SourcesOptions),
          m \in 1..Len(MetaOptions) :
         LET cand == MkCandidate(AnswerOptions[a], ConfidenceOptions[c],
                                 ActionsOptions[ac], SourcesOptions[s],
                                 MetaOptions[m])
         IN  /\ given' = cand
             /\ candidate' = EnsureResponseStructure(cand)
    /\ normalized' = candidate'
    /\ previous' = NoResult
    /\ passes' = 1
    /\ UNCHANGED outsideNorm

\* ensure_response_structure applied to what it returned
NormalizeAgain ==
    /\ passes = 1
    /\ previous' = normalized
    /\ candidate' = EnsureResponseStructure(normalized)
    /\ normalized' = candidate'
    /\ passes' = 2
    /\ UNCHANGED given
    /\ UNCHANGED outsideNorm

\* the caller drops the mapping
NormalizeDone ==
    /\ passes = 2
    /\ given' = NoResult
    /\ candidate' = NoResult
    /\ normalized' = NoResult
    /\ previous' = NoResult
    /\ passes' = 0
    /\ UNCHANGED outsideNorm

NormNext ==
    \/ NormalizeCall
    \/ NormalizeAgain
    \/ NormalizeDone

SpecNorm == NormInit /\ [][NormNext]_vars

-----------------------------------------------------------------------------
(* Properties of ensure_response_structure *)

ModeTexts == { LlmText.mode_ai, LlmText.mode_fallback, LlmText.mode_demo,
               QueryText.mode_emergency }

IsStr(v) == v.kind = "str"

\* a mapping whose meta names one of the four modes
HasMode(r) ==
    /\ r.meta.kind = "dict"
    /\ "mode" \in DOMAIN r.meta.val
    /\ r.meta.val.mode.kind = "str"
    /\ r.meta.val.mode.val \in ModeTexts

\* C9: for every candidate mapping, ensure_response_structure returns all
\* five fields correctly typed: answer a non-empty string, confidence a
\* number in [0,1], actions at most 3 strings, sources a sequence of
\* {title, url, snippet} texts, meta a mapping with a mode among ai, fallback,
\* demo and emergency_fallback.
C9_NormalizedWellTyped ==
    passes >= 1 =>
        LET r == normalized.val
        IN  /\ {"answer", "confidence", "actions", "sources", "meta"}
                  \subseteq DOMAIN r
            /\ IsStr(r.answer) /\ r.answer.val # <<>>
            /\ InUnitInterval(r.confidence)
            /\ r.actions.kind = "list"
            /\ Len(r.actions.val) <= 3
            /\ \A i \in 1..Len(r.actions.val) : IsStr(r.actions.val[i])
            /\ r.sources.kind = "list"
            /\ \A i \in 1..Len(r.sources.val) :
                  /\ IsDict(r.sources.val[i])
                  /\ DOMAIN r.sources.val[i].val = {"title", "url", "snippet"}
                  /\ \A f \in {"title", "url", "snippet"} :
                        IsStr(r.sources.val[i].val[f])
            /\ HasMode(r)

\* C10: ensure_response_structure applied to its own output returns a mapping
\* identical to that output.
C10_NormalizeIdempotent ==
    passes = 2 => normalized = previous

\* a second pass was made over a mapping whose first pass replaced the
\* answer, clamped the confidence and rebuilt a source
C10_Witness ==
    /\ passes = 2
    /\ "answer" \notin DOMAIN given.val
    /\ "confidence" \in DOMAIN given.val
    /\ given.val.confidence = PyFloat(150)
    /\ previous.val.confidence = PyFloat(100)
    /\ Len(previous.val.sources.val) = 1
    /\ previous.val.sources.val[1].val.title = PyStr(QueryText.none_text)


-----------------------------------------------------------------------------
(* routes/query.py: the fallback generators, the prompt, QueryResponse *)

\* generate_enhanced_fallback
EnhancedFallback(text, lang, image_ctx) ==
    LET query_lower == Lower(text)
        T == QueryText
        hi == lang = T.lang_hi
        en == lang = T.lang_en
        base_greeting == IF hi THEN T.greeting_hi ELSE T.greeting_en
        general_advice == IF hi THEN T.advice_hi ELSE T.advice_en
        category ==
            IF AnyIn(QueryWords.irrigation, query_lower) THEN "irrigation"
            ELSE IF AnyIn(QueryWords.pest, query_lower) THEN "pest"
            ELSE IF AnyIn(QueryWords.planting, query_lower) THEN "planting"
            ELSE IF AnyIn(QueryWords.market, query_lower) THEN "market"
            ELSE "general"
        advice ==
            CASE category = "irrigation" ->
                   IF hi THEN T.irrigation_hi ELSE T.irrigation_en
              [] category = "pest" -> IF hi THEN T.pest_hi ELSE T.pest_en
              [] category = "planting" ->
                   IF hi THEN T.planting_hi ELSE T.planting_en
              [] category = "market" -> IF hi THEN T.market_hi ELSE T.market_en
              [] OTHER ->
                   general_advice \o <<" ">> \o
                   (IF hi THEN T.general_hi ELSE T.general_en)
        actions ==
            CASE category = "irrigation" ->
                   IF hi THEN QueryActions.irrigation_hi
                   ELSE QueryActions.irrigation_en
              [] category = "pest" ->
                   IF hi THEN QueryActions.pest_hi ELSE QueryActions.pest_en
              [] category = "planting" ->
                   IF hi THEN QueryActions.planting_hi
                   ELSE QueryActions.planting_en
              [] category = "market" ->
                   IF hi THEN QueryActions.market_hi ELSE QueryActions.market_en
              [] OTHER ->
                   IF hi THEN QueryActions.general_hi
                   ELSE QueryActions.general_en
        plain == base_greeting \o <<" ">> \o advice
        answer ==
            IF Truthy(image_ctx)
            THEN (IF hi THEN T.image_pre_hi ELSE T.image_pre_en) \o
                 image_ctx.val \o T.image_post \o plain
            ELSE plain
    IN  PyDict(
          [answer |-> PyStr(answer),
           confidence |-> PyFloat(60),
           actions |-> PyList([i \in 1..Len(actions) |-> PyStr(actions[i])]),
           sources |-> PyList(<<PyDict(
              [title |-> PyStr(IF en THEN T.src_title_en ELSE T.src_title_hi),
               url |-> PyStr(T.src_url),
               snippet |-> PyStr(IF en THEN T.src_snippet_en
                                 ELSE T.src_snippet_hi)])>>),
           meta |-> PyDict(
              [mode |-> PyStr(T.mode_fallback),
               language |-> PyStr(lang),
               has_image |-> PyBool(Truthy(image_ctx)),
               fallback_reason |-> PyStr(T.fallback_reason)])])

\* generate_emergency_fallback
EmergencyFallback(lang) ==
    LET T == QueryText
        hi == lang = T.lang_hi
        en == lang = T.lang_en
        actions == IF hi THEN QueryActions.emergency_hi
                   ELSE QueryActions.emergency_en
    IN  PyDict(
          [answer |-> PyStr(IF hi THEN T.emergency_hi ELSE T.emergency_en),
           confidence |-> PyFloat(40),
           actions |-> PyList([i \in 1..Len(actions) |-> PyStr(actions[i])]),
           sources |-> PyList(<<PyDict(
              [title |-> PyStr(IF en THEN T.em_title_en ELSE T.em_title_hi),
               url |-> PyStr(<<>>),
               snippet |-> PyStr(IF en THEN T.em_snippet_en
                                 ELSE T.em_snippet_hi)])>>),
           meta |-> PyDict(
              [mode |-> PyStr(T.mode_emergency),
               language |-> PyStr(lang),
               error |-> PyStr(T.em_error)])])

\* one line pair of context_text (query.py:62)
ContextOf(doc) ==
    QueryText.ctx_title \o
    StrOf(Get(doc.val, "title", PyStr(QueryText.ctx_na))) \o
    QueryText.ctx_content \o
    StrOf(Get(doc.val, "content", Get(doc.val, "snippet", PyStr(<<>>))))

\* the prompt of query.py:61-82
BuildPrompt(docs, text, image_ctx) ==
    QueryText.prompt_head \o
    Join(QueryText.newline, [i \in 1..Len(docs.val) |-> ContextOf(docs.val[i])])
    \o QueryText.prompt_query \o text \o QueryText.prompt_sep \o
    (IF Truthy(image_ctx) THEN QueryText.image_context_pre \o image_ctx.val
     ELSE <<>>) \o
    QueryText.prompt_tail

\* QueryResponse(**resp): what the validation of the five declared fields can
\* give.  Keys that are not declared are ignored.  A str field rejects a
\* list, a dict and None; a number is either rejected or turned into its
\* text, by the version of pydantic installed.
QueryResponseOutcomes(resp) ==
    LET d == resp.val
        declared == {"answer", "confidence", "actions", "sources", "meta"}
        fields == [f \in declared |-> d[f]]
    IN  IF ~(declared \subseteq DOMAIN d)
           \/ d.confidence.kind \notin {"int", "float", "bool"}
           \/ d.actions.kind # "list"
           \/ d.sources.kind # "list"
           \/ d.meta.kind # "dict"
        THEN { Raise("ValidationError") }
        ELSE CASE d.answer.kind = "str" -> { PyDict(fields) }
               [] d.answer.kind \in {"int", "float", "bool"} ->
                    { PyDict([fields EXCEPT !.answer = PyStr(StrOf(@))]),
                      Raise("ValidationError") }
               [] OTHER -> { Raise("ValidationError") }


-----------------------------------------------------------------------------
(* query_assistant *)

SampleTexts == { SynthSamples.q_irrigate, SynthSamples.q_other, <<>>, <<" ">> }

SampleLangs == { QueryText.lang_en, QueryText.lang_hi, <<"f", "r">> }

SampleImageIds == { None, PyStr(<<"i", "m", "g">>) }

\* what retriever.retrieve hands back in the samples
QueryRetrieved ==
    { PyList(<<>>), PyList(<<DocWheat>>), PyList(<<DocNullSnippet>>) }

\* what db.get_image hands back in the samples: no row, a row without a
\* label, a row with a label
SampleImageRows ==
    { None, PyDict([id |-> PyStr(<<"i", "m", "g">>)]),
      PyDict([label |-> PyStr(<<"l", "e", "a", "f">>)]) }

\* what query_huggingface can return under the configuration (llm.py:35-86)
HfReturns ==
    IF ~BackendConfigured(HF_API_KEY, HF_MODEL) THEN { None }
    ELSE { None } \cup { PyStr(t) : t \in GeneratedTexts }

\* synthesize_answer returns at line 110 or at line 113: the answer is made
\* from the text of the backend
FromBackend(demo, hf) ==
    /\ ~demo
    /\ Truthy(hf)
    /\ LET loaded == JsonLoads(hf.val)
       IN  \/ ~loaded.ok
           \/ /\ loaded.val.kind = "dict"
              /\ ValidateResponse(loaded.val) = PyBool(TRUE)

\* query_assistant with no try around synthesize_answer (no lines 85, 87-89)
StageHandlerNoSynthesisTry(stage) ==
    CASE stage \in {"retrieval", "image", "persistence"} -> "continue"
      [] OTHER -> "emergency"

\* The try/except structure of query_assistant: an exception raised inside
\* retrieval (41-45), image lookup (51-57), synthesis (85-89) or persistence
\* (100-110) is handled there and the request goes on; any other exception
\* reaches line 119.
StageHandler(stage) ==
    CASE stage \in {"retrieval", "image", "synthesis", "persistence"} ->
           "continue"
      [] OTHER -> "emergency"

HttpError(status) == [kind |-> "http_error", val |-> status]

QueryInit ==
    /\ ConfigInit
    /\ QueryIdle
    /\ spc = "idle" /\ attempt = 0 /\ hfLog = <<>>
    /\ prompt_text = <<>>
    /\ retrieved_docs = PyList(<<>>)
    /\ image_context = None
    /\ hf_response = None
    /\ response = NoResult
    /\ globalModel = None /\ model = None /\ documents = <<>>
    /\ embeddings = None /\ pc = "idle" /\ query_text = <<>> /\ k = 1
    /\ depth = 0 /\ result = NoResult /\ trace = <<>> /\ passLog = <<>>
    /\ NormIdle
    /\ ConcIdle

outsideQuery == <<retrVars, configVars, hfVars, normVars, concVars>>

\* a request arrives at POST /api/query
Receive ==
    /\ qpc = "idle"
    /\ \E text \in SampleTexts, lang \in SampleLangs,
          image_id \in SampleImageIds :
         request' = [text |-> text, lang |-> lang, image_id |-> image_id]
    /\ qpc' = "validate"
    /\ UNCHANGED <<reply, origin, raisedAt, stages, callVars>>
    /\ UNCHANGED outsideQuery

\* line 36 without the strip: only the empty text is refused
IsBlankTextEmptyOnly(text) == text = <<>>

\* line 36: not request.text or not request.text.strip()
IsBlankText(text) == text = <<>> \/ Strip(text) = <<>>

\* line 92 testing the response only, not its answer
NeedsFallbackNoneOnly(resp) == ~Truthy(resp)

\* line 92: not response or not response.get("answer")
NeedsFallback(resp) ==
    \/ ~Truthy(resp)
    \/ ~Truthy(Get(resp.val, "answer", None))

\* lines 36-37 and 117-118: the HTTPException is re-raised to the caller
ValidateInput ==
    /\ qpc = "validate"
    /\ IF IsBlankText(request.text)
       THEN /\ reply' = HttpError(400)
            /\ qpc' = "replied"
       ELSE /\ qpc' = "retrieve"
            /\ UNCHANGED reply
    /\ stages' = Append(stages, "validate")
    /\ UNCHANGED <<request, origin, raisedAt, callVars>>
    /\ UNCHANGED outsideQuery

\* lines 40-46: retriever.retrieve(request.text, k=3) or []
RetrieveDocuments ==
    /\ qpc = "retrieve"
    /\ \/ /\ \E docs \in QueryRetrieved : retrieved_docs' = docs
          /\ qpc' = "image"
          /\ UNCHANGED raisedAt
       \/ /\ raisedAt' = raisedAt \cup {"retrieval"}
          /\ retrieved_docs' = PyList(<<>>)
          /\ qpc' = IF StageHandler("retrieval") = "continue" THEN "image"
                    ELSE "emergency"
    /\ stages' = Append(stages, "retrieve")
    /\ UNCHANGED <<request, reply, origin, prompt_text, image_context,
                   hf_response, response>>
    /\ UNCHANGED outsideQuery

\* lines 49-58: the label of the uploaded image, then lines 61-82: the prompt
ImageContext ==
    /\ qpc = "image"
    /\ \/ /\ ~Truthy(request.image_id)
          /\ image_context' = None
          /\ qpc' = "synthesize"
          /\ UNCHANGED raisedAt
       \/ /\ Truthy(request.image_id)
          /\ \E image_data \in SampleImageRows :
               image_context' =
                  IF Truthy(image_data)
                     /\ Truthy(Get(image_data.val, "label", None))
                  THEN PyStr(QueryText.image_shows \o
                             StrOf(image_data.val.label))
                  ELSE None
          /\ qpc' = "synthesize"
          /\ UNCHANGED raisedAt
       \/ /\ Truthy(request.image_id)
          /\ image_context' = None
          /\ raisedAt' = raisedAt \cup {"image"}
          /\ qpc' = IF StageHandler("image") = "continue" THEN "synthesize"
                    ELSE "emergency"
    /\ prompt_text' = BuildPrompt(retrieved_docs, request.text, image_context')
    /\ stages' = Append(stages, "image")
    /\ UNCHANGED <<request, reply, origin, retrieved_docs, hf_response,
                   response>>
    /\ UNCHANGED outsideQuery

\* lines 85-89: llm_client.synthesize_answer(prompt, retrieved_docs,
\* image_context); an exception leaves response = None
SynthesizeStage ==
    /\ qpc = "synthesize"
    /\ \E hf \in (IF DEMO_MODE THEN { None } ELSE HfReturns) :
         LET r == SynthesizeAnswer(DEMO_MODE, HF_MODEL, hf, prompt_text,
                                   retrieved_docs, image_context)
         IN  /\ hf_response' = hf
             /\ IF IsRaise(r)
                THEN /\ response' = None
                     /\ origin' = "none"
                     /\ raisedAt' = raisedAt \cup {"synthesis"}
                     /\ qpc' = IF StageHandler("synthesis") = "continue"
                               THEN "fallback" ELSE "emergency"
                ELSE /\ response' = r
                     /\ origin' = IF FromBackend(DEMO_MODE, hf) THEN "backend"
                                  ELSE "deterministic"
                     /\ qpc' = "fallback"
                     /\ UNCHANGED raisedAt
    /\ stages' = Append(stages, "synthesize")
    /\ UNCHANGED <<request, reply, prompt_text, retrieved_docs, image_context>>
    /\ UNCHANGED outsideQuery

\* lines 92-97: the enhanced fallback when there is no response or no answer,
\* then ensure_response_structure
FallbackAndEnsure ==
    /\ qpc = "fallback"
    /\ LET replace == NeedsFallback(response)
           chosen == IF replace
                     THEN EnhancedFallback(request.text, request.lang,
                                           image_context)
                     ELSE response
       IN  /\ response' = EnsureResponseStructure(chosen)
           /\ origin' = IF replace THEN "enhanced" ELSE origin
           /\ stages' = stages \o (IF replace THEN <<"fallback">> ELSE <<>>)
                             \o <<"ensure">>
    /\ qpc' = "save"
    /\ UNCHANGED <<request, reply, raisedAt, prompt_text, retrieved_docs,
                   image_context, hf_response>>
    /\ UNCHANGED outsideQuery

\* lines 100-111: db.insert_query returns an id, returns nothing, or raises
SaveQuery ==
    /\ qpc = "save"
    /\ \/ /\ response' = PyDict(Put(response.val, "meta",
                 PyDict(Put(response.val.meta.val, "query_id",
                            PyStr(<<"q", "1">>)))))
          /\ qpc' = "respond"
          /\ UNCHANGED raisedAt
       \/ /\ qpc' = "respond"
          /\ UNCHANGED <<response, raisedAt>>
       \/ /\ raisedAt' = raisedAt \cup {"persistence"}
          /\ qpc' = IF StageHandler("persistence") = "continue" THEN "respond"
                    ELSE "emergency"
          /\ UNCHANGED response
    /\ stages' = Append(stages, "save")
    /\ UNCHANGED <<request, reply, origin, prompt_text, retrieved_docs,
                   image_context, hf_response>>
    /\ UNCHANGED outsideQuery

\* line 115: QueryResponse(**response)
Respond ==
    /\ qpc = "respond"
    /\ \E out \in QueryResponseOutcomes(response) :
         IF IsRaise(out)
         THEN /\ raisedAt' = raisedAt \cup {"response"}
              /\ qpc' = IF StageHandler("response") = "continue" THEN "replied"
                        ELSE "emergency"
              /\ UNCHANGED reply
         ELSE /\ reply' = out
              /\ qpc' = "replied"
              /\ UNCHANGED raisedAt
    /\ stages' = Append(stages, "respond")
    /\ UNCHANGED <<request, origin, callVars>>
    /\ UNCHANGED outsideQuery

\* lines 119-124: QueryResponse(**generate_emergency_fallback(text, lang))
EmergencyResponse ==
    /\ qpc = "emergency"
    /\ response' = EmergencyFallback(request.lang)
    /\ \E out \in QueryResponseOutcomes(response') : reply' = out
    /\ origin' = "emergency"
    /\ stages' = Append(stages, "emergency")
    /\ qpc' = "replied"
    /\ UNCHANGED <<request, raisedAt, prompt_text, retrieved_docs,
                   image_context, hf_response>>
    /\ UNCHANGED outsideQuery

\* the reply has left; the next request may arrive
Replied ==
    /\ qpc = "replied"
    /\ request' = NoResult
    /\ qpc' = "idle"
    /\ reply' = NoResult
    /\ origin' = "none"
    /\ raisedAt' = {}
    /\ stages' = <<>>
    /\ prompt_text' = <<>>
    /\ retrieved_docs' = PyList(<<>>)
    /\ image_context' = None
    /\ hf_response' = None
    /\ response' = NoResult
    /\ UNCHANGED outsideQuery

QueryNext ==
    \/ Receive
    \/ ValidateInput
    \/ RetrieveDocuments
    \/ ImageContext
    \/ SynthesizeStage
    \/ FallbackAndEnsure
    \/ SaveQuery
    \/ Respond
    \/ EmergencyResponse
    \/ Replied

SpecQuery == QueryInit /\ [][QueryNext]_vars


-----------------------------------------------------------------------------
(* Properties of query_assistant *)

Answered == qpc = "replied" /\ reply.kind = "dict"

\* the static emergency response: its fixed text in the language asked for,
\* confidence 0.4 and the mode emergency_fallback
IsEmergency(r, lang) ==
    /\ r.kind = "dict"
    /\ r.val.answer = PyStr(IF lang = QueryText.lang_hi
                            THEN QueryText.emergency_hi
                            ELSE QueryText.emergency_en)
    /\ r.val.confidence = PyFloat(40)
    /\ HasMode(r.val)
    /\ r.val.meta.val.mode.val = QueryText.mode_emergency

\* C7 as stated: whenever any stage of query_assistant raises an unexpected
\* exception, the caller receives the static emergency response.
C7_AnyStageFailureGivesEmergency ==
    (qpc = "replied" /\ raisedAt # {}) => IsEmergency(reply, request.lang)

\* C7: an exception raised inside retrieval, image lookup, synthesis or
\* persistence is handled at that stage and does not lead to the emergency
\* response; the caller receives the static emergency response (fixed text,
\* confidence 0.4, mode emergency_fallback) exactly when an exception escapes
\* those handlers, and producing it never fails.
C7_EmergencyOnEscapedException ==
    (qpc = "replied" /\ reply.kind # "http_error") =>
        /\ reply.kind = "dict"
        /\ ("response" \in raisedAt) <=> IsEmergency(reply, request.lang)
        /\ (raisedAt # {} /\ "response" \notin raisedAt) =>
              reply.val.meta.val.mode.val # QueryText.mode_emergency

\* the validation of the response failed after a stage had already raised and
\* been handled, and the caller got the emergency response
C7_Witness ==
    /\ qpc = "replied"
    /\ raisedAt = {"persistence", "response"}
    /\ IsEmergency(reply, request.lang)
    /\ request.lang = QueryText.lang_hi

\* C8: every answer returned by query_assistant has meta.mode among ai,
\* fallback, demo and emergency_fallback, and an answer that was not made
\* from text of the generative backend never has the mode ai.
C8_ModeReflectsOrigin ==
    Answered =>
        /\ HasMode(reply.val)
        /\ origin # "backend" =>
              reply.val.meta.val.mode.val \in
                 { LlmText.mode_fallback, LlmText.mode_demo,
                   QueryText.mode_emergency }

\* the backend returned a text, synthesize_answer rejected it and answered
\* from the deterministic fallback
C8_Witness ==
    /\ Answered
    /\ Truthy(hf_response)
    /\ origin = "deterministic"
    /\ reply.val.meta.val.mode.val = LlmText.mode_fallback


-----------------------------------------------------------------------------
(* Further properties of ensure_response_structure *)

\* C11: ensure_response_structure is a pure function with no failure path: the
\* candidate mapping passed to it is the same after the call as before, and
\* the call returns a mapping for every candidate.
C11_NormalizeLeavesCandidate ==
    passes = 1 =>
        /\ normalized.kind = "dict"
        /\ candidate = given


-----------------------------------------------------------------------------
(* Further properties of query_assistant *)

\* the answer in the caller's hands went through ensure_response_structure
\* after it was generated: no generator ran after the last ensure step
EnsuredBeforeReturn ==
    \E i \in 1..Len(stages) :
        /\ stages[i] = "ensure"
        /\ \A j \in (i + 1)..Len(stages) :
              stages[j] \notin {"synthesize", "fallback", "emergency"}

\* C12: every answer that query_assistant returns to the caller, on the
\* success path, on the enhanced-fallback path and on the emergency path, has
\* passed through ensure_response_structure before being returned.
C12_EveryAnswerEnsured ==
    Answered => EnsuredBeforeReturn


-----------------------------------------------------------------------------
(* Further properties of LLMClient *)

\* the synthesize_answer call in progress has returned or raised
Synthesized == spc = "done"

\* C13: when demo mode is on, or the key or the model identifier of the
\* backend is absent, synthesize_answer sends no request to the backend and
\* its result is the one of the deterministic fallback.
C13_NoRequestWhenBackendDisabled ==
    (DEMO_MODE \/ ~Truthy(HF_API_KEY) \/ ~Truthy(HF_MODEL)) =>
        /\ hfLog = <<>>
        /\ spc # "post"
        /\ Synthesized =>
              response = DeterministicFallback(DEMO_MODE, prompt_text,
                                               retrieved_docs, image_context)

\* demo mode is off and the key is set but the model identifier is not: the
\* call returned the deterministic answer without a request
C13_Witness ==
    /\ Synthesized
    /\ ~DEMO_MODE
    /\ Truthy(HF_API_KEY)
    /\ ~Truthy(HF_MODEL)
    /\ hfLog = <<>>
    /\ response.kind = "dict"
    /\ response.val.meta.val.mode = PyStr(LlmText.mode_fallback)


\* synthesize_answer returned at line 122: the result in hand is the one of
\* _deterministic_fallback
FromDeterministic ==
    /\ Synthesized
    /\ response.kind = "dict"
    /\ ~FromBackend(DEMO_MODE, hf_response)

\* C14: every result of the deterministic fallback has meta.mode = demo when
\* the demo configuration is on and meta.mode = fallback otherwise, and its
\* meta carries the count of the documents handed to it.
C14_FallbackMetaModeAndCount ==
    FromDeterministic =>
        /\ HasMode(response.val)
        /\ response.val.meta.val.mode.val =
              (IF DEMO_MODE THEN LlmText.mode_demo ELSE LlmText.mode_fallback)
        /\ "retrieved_docs" \in DOMAIN response.val.meta.val
        /\ response.val.meta.val.retrieved_docs =
              PyInt(Len(retrieved_docs.val))

\* demo configuration, four documents handed in: mode demo and the count 4
C14_Witness ==
    /\ FromDeterministic
    /\ DEMO_MODE
    /\ Len(retrieved_docs.val) = 4
    /\ response.val.meta.val.mode = PyStr(LlmText.mode_demo)
    /\ response.val.meta.val.retrieved_docs = PyInt(4)


\* the irrigation question answered in demo mode from two documents that both
\* carry a snippet, without an image
IrrigationScenario ==
    /\ Synthesized
    /\ DEMO_MODE
    /\ prompt_text = SynthSamples.q_irrigate
    /\ image_context = None
    /\ Len(retrieved_docs.val) = 2
    /\ \A i \in 1..2 : /\ HasSnippet(retrieved_docs.val[i])
                       /\ IsStr(retrieved_docs.val[i].val.snippet)

IrrigationAnswerAndActions ==
    /\ response.kind = "dict"
    /\ IsStr(response.val.answer)
    /\ Contains(response.val.answer.val, LlmText.irrigation_base)
    /\ response.val.actions =
          PyList([i \in 1..3 |-> PyStr(LlmActions.irrigation[i])])

-----------------------------------------------------------------------------
(* The retrieval and the synthesis of one query, run one after the other as  *)
(* query_assistant runs them (query.py:40-89)                                *)

\* a question that names a category term and one that names none
PipelineQueries == { SynthSamples.q_irrigate, SynthSamples.q_other }

\* a corpus of one document about wheat
PipelineCorpus ==
    << MkDoc(<<"1">>, SynthSamples.title_wheat, SynthSamples.content_soil,
             SynthSamples.snip_short) >>

\* a corpus loaded from the docs table (retriever.py:57-59, `select("*")`,
\* the rows taken as they are) whose one row has a title and a url, an empty
\* content and no snippet
PipelineCorpusBare ==
    << [id |-> PyStr(<<"9">>), title |-> PyStr(SynthSamples.title_wheat),
        content |-> PyStr(<<>>), url |-> PyStr(<<"u">>)] >>

\* The document list of the retriever is either filled or empty.  retrieve
\* tests `if not self.documents` (retriever.py:156): the list is an attribute
\* that the function reads on every call.
PipelineInit ==
    /\ globalModel \in {None, TheModel}
    /\ model = globalModel
    /\ documents \in { <<>>, PipelineCorpus, PipelineCorpusBare }
    /\ embeddings \in
         IF model # None /\ documents # <<>>
         THEN {None, Encode(CorpusTexts(documents))} ELSE {None}
    /\ pc = "idle"
    /\ query_text = <<>>
    /\ k = 1
    /\ depth = 0
    /\ result = NoResult
    /\ trace = <<>>
    /\ passLog = <<>>
    /\ ConfigInit
    /\ spc = "idle"
    /\ prompt_text = <<>>
    /\ retrieved_docs = PyList(<<>>)
    /\ image_context = None
    /\ attempt = 0
    /\ hfLog = <<>>
    /\ hf_response = None
    /\ response = NoResult
    /\ NormIdle
    /\ ConcIdle
    /\ QueryIdle

\* query.py:42: retriever.retrieve(request.text, k=3)
PipelineRetrieve ==
    /\ pc = "idle"
    /\ spc = "idle"
    /\ \E q \in PipelineQueries : query_text' = q
    /\ k' = 3
    /\ pc' = "attach"
    /\ depth' = 0
    /\ result' = NoResult
    /\ trace' = <<>>
    /\ passLog' = <<>>
    /\ UNCHANGED <<globalModel, model, documents, embeddings>>
    /\ UNCHANGED outsideRetriever

\* query.py:42-86: the documents retrieved (none if the retrieval raised), the
\* prompt built from them, and the call of synthesize_answer without an image
PipelineSynthesize ==
    /\ Finished
    /\ spc = "idle"
    /\ retrieved_docs' =
          IF result.kind = "list"
          THEN PyList([i \in 1..Len(result.val) |-> PyDict(result.val[i])])
          ELSE PyList(<<>>)
    /\ image_context' = None
    /\ prompt_text' = BuildPrompt(retrieved_docs', query_text, None)
    /\ spc' = IF DEMO_MODE THEN "parse" ELSE "query"
    /\ attempt' = 0
    /\ hfLog' = <<>>
    /\ hf_response' = None
    /\ response' = NoResult
    /\ pc' = "idle"
    /\ UNCHANGED <<globalModel, model, documents, embeddings, query_text, k,
                   depth, result, trace, passLog>>
    /\ UNCHANGED <<configVars, normVars, queryVars, concVars>>

PipelineNext ==
    \/ LoadModel
    \/ PipelineRetrieve
    \/ AttachModel
    \/ CheckAvailable
    \/ RemoteSearch
    \/ LocalSimilarity
    \/ OnDemandEmbeddings
    \/ Unwind
    \/ PipelineSynthesize
    \/ HfCheckConfig
    \/ HfPost
    \/ Synthesize
    \/ SynthesizeReturn

SpecPipeline == PipelineInit /\ [][PipelineNext]_vars

-----------------------------------------------------------------------------
(* Properties of the pipeline *)

\* retrieve ran on the empty corpus in demo mode and synthesize_answer has
\* answered from what it returned
EmptyCorpusAnswered ==
    /\ documents = <<>>
    /\ DEMO_MODE
    /\ Synthesized

NamesCategory(q) ==
    \E c \in {"irrigation", "pest", "planting", "market"} :
        AnyIn(LlmWords[c], Lower(q))

\* the template sentence of a category followed by its default advice
CategoryDefaults ==
    { LlmText.irrigation_base \o LlmText.space \o LlmText.irrigation_default,
      LlmText.pest_base \o LlmText.space \o LlmText.pest_default,
      LlmText.planting_base \o LlmText.space \o LlmText.planting_default,
      LlmText.market_base \o LlmText.space \o LlmText.market_default }

-----------------------------------------------------------------------------
(* Further properties of synthesize_answer *)

\* the backend was asked and returned a text that parses as a JSON object
\* without the sources field
BackendObjectLacksSources ==
    /\ Synthesized
    /\ ~DEMO_MODE
    /\ Truthy(hf_response)
    /\ LET loaded == JsonLoads(hf_response.val)
       IN  /\ loaded.ok
           /\ loaded.val.kind = "dict"
           /\ "sources" \notin DOMAIN loaded.val.val

SnippetCount ==
    Cardinality({ i \in 1..Min(3, Len(retrieved_docs.val)) :
                     HasSnippet(retrieved_docs.val[i]) })

\* the doubles 0.4, 0.5, 0.6000000000000001 and 0.7000000000000001
DoubleConfidence ==
    [n \in 0..3 |-> [kind |-> "float", val |-> 40 + 10 * n,
                     ulp |-> IF n >= 2 THEN 1 ELSE 0]]

\* C18 as stated: the deterministic tier's confidence is min(0.8, 0.4 + 0.1 n)
\* for n context snippets, that is 0.4, 0.5, 0.6 and 0.7 for 0, 1, 2 and 3 or
\* more snippets, for every document list passed to the synthesizer.
C18_ConfidenceExactDecimals ==
    FromDeterministic =>
        response.val.confidence = PyFloat(Min(80, 40 + 10 * SnippetCount))

\* C18: the deterministic tier's confidence is the double-precision value of
\* min(0.8, 0.4 + n * 0.1) for n context snippets: 0.4, 0.5,
\* 0.6000000000000001 and 0.7000000000000001 for 0, 1, 2 and 3 snippets (at
\* most 3 are collected), which is non-decreasing in n and never above 0.8,
\* for every document list passed to the synthesizer.
C18_ConfidenceBySnippetCount ==
    FromDeterministic =>
        LET c == response.val.confidence
            n == SnippetCount
        IN  /\ n <= 3
            /\ c = DoubleConfidence[n]
            /\ \A m \in 0..n : DoubleConfidence[m].val <= c.val
            /\ c.val < 80

\* three documents that all carry a snippet: the confidence is
\* 0.7000000000000001
C18_Witness ==
    /\ FromDeterministic
    /\ Len(retrieved_docs.val) = 3
    /\ SnippetCount = 3
    /\ response.val.confidence = [kind |-> "float", val |-> 70, ulp |-> 1]


-----------------------------------------------------------------------------
(* Bounds on the loops of the pipeline *)

\* the passes of the loop of query_huggingface that ended with the model-
\* loading response, and those that ended with an exception
LoadingPasses == { i \in 1..Len(hfLog) : hfLog[i].outcome = "loading" }
ExceptionPasses == { i \in 1..Len(hfLog) : hfLog[i].outcome = "exception" }

\* the nested calls retrieve made of itself in the call at hand
Reentries == { i \in 1..Len(trace) : trace[i].out = "recurse" }

-----------------------------------------------------------------------------
(* Language of the fallback generators *)

\* the answer in hand was produced by generate_enhanced_fallback or by
\* generate_emergency_fallback for a language code other than en and hi
FallbackForOtherLanguage ==
    /\ Answered
    /\ origin \in {"enhanced", "emergency"}
    /\ request.lang \notin {QueryText.lang_en, QueryText.lang_hi}

\* what the same generator produces for the English code
EnglishFallback ==
    IF origin = "enhanced"
    THEN EnhancedFallback(request.text, QueryText.lang_en, image_context)
    ELSE EmergencyFallback(QueryText.lang_en)

\* C20: in generate_enhanced_fallback and generate_emergency_fallback a
\* language code that is neither English nor Hindi yields the English
\* template set: the answer, the actions, the source title and the source
\* snippet equal the ones produced for the English code.
C20_OtherLanguageGivesEnglish ==
    FallbackForOtherLanguage =>
        /\ reply.val.answer = EnglishFallback.val.answer
        /\ reply.val.actions = EnglishFallback.val.actions
        /\ Len(reply.val.sources.val) = 1
        /\ reply.val.sources.val[1].val.title =
              EnglishFallback.val.sources.val[1].val.title
        /\ reply.val.sources.val[1].val.snippet =
              EnglishFallback.val.sources.val[1].val.snippet


-----------------------------------------------------------------------------
(* Further properties of retrieve: the local similarity tier *)

\* the local similarity tier has just answered the call at hand
LocalAnswered ==
    /\ pc = "done"
    /\ trace # <<>>
    /\ trace[Len(trace)] = Entry("local", "ok")

\* the raw dot product of the query vector and the vector of document i
RawDot(i) ==
    Dot(Embed(query_text), Embed(Get(documents[i], "content", PyStr(<<>>)).val))

\* the positions of the corpus by descending dot product, with equal dot
\* products in corpus order when `corpusOrder`, in reverse corpus order
\* otherwise
DotRanking(corpusOrder) ==
    LET n == Len(documents)
    IN  CHOOSE seq \in [1..n -> 1..n] :
          \A a \in 1..n, b \in 1..n :
             a < b =>
               \/ RawDot(seq[a]) > RawDot(seq[b])
               \/ /\ RawDot(seq[a]) = RawDot(seq[b])
                  /\ IF corpusOrder THEN seq[a] < seq[b] ELSE seq[a] > seq[b]

\* the result is the first k documents of the ranking, each with its dot
\* product as similarity
LocalResultFollows(rank) ==
    LET n == Min(k, Len(documents))
    IN  /\ result.kind = "list"
        /\ Len(result.val) = n
        /\ \A j \in 1..n :
              result.val[j] = Put(documents[rank[j]], "similarity",
                                  PyFloat(RawDot(rank[j]) * 100))

\* C21: the local similarity tier returns the top k corpus documents by
\* descending raw dot product of the query vector with each document vector,
\* each similarity being exactly that dot product, with equal-score documents
\* in their original corpus order; for two orthogonal unit document vectors
\* and a query equal to one of them the matching document is first with score
\* 1 and the other has score 0.
C21_LocalTopKTiesInCorpusOrder ==
    LocalAnswered => LocalResultFollows(DotRanking(TRUE))


-----------------------------------------------------------------------------
(* Further properties of retrieve: the corpus embedding cache *)

\* the cache holds one vector per corpus document, the vector at position i
\* being the one of document i
CacheComplete ==
    /\ embeddings.kind = "ndarray"
    /\ Len(embeddings.val) = Len(documents)
    /\ \A i \in 1..Len(documents) :
          embeddings.val[i] =
             Embed(Get(documents[i], "content", PyStr(<<>>)).val)

\* C22: in every reachable state of the retriever the embedding cache is
\* either absent or holds exactly one vector per corpus document, index-
\* aligned with the documents; it is never partially filled, whatever the
\* construction, attach and retrieve operations and the provider failures.
C22_CacheAbsentOrComplete ==
    embeddings = None \/ CacheComplete

\* a call whose attach-time pass failed filled the cache on demand and then
\* answered from it
C22_Witness ==
    /\ LocalAnswered
    /\ depth = 1
    /\ \E i \in 1..Len(trace) : trace[i] = Entry("local", "recurse")
    /\ Len(documents) = 2
    /\ documents[1] # documents[2]
    /\ CacheComplete


\* the passes of the call at hand that failed
FailedPasses == { i \in 1..Len(passLog) : ~passLog[i].ok }

\* C23: within one retrieve call that finds the cache missing while a provider
\* is attached, the whole-corpus embedding pass is attempted exactly once; if
\* that attempt fails the call goes directly to the keyword tier and the pass
\* is not attempted again in that call.
C23_SinglePassPerCall ==
    /\ Len(passLog) <= 1
    /\ FailedPasses # {} =>
          /\ pc \in {"check", "done"}
          /\ pc = "done" => LastTier = "keyword"
    /\ (Finished /\ model # None /\ embeddings = None) => Len(passLog) = 1


\* every corpus embedding pass of the call at hand aborted on an error
EveryPassFailed == passLog # <<>> /\ FailedPasses = 1..Len(passLog)

CacheFilled == model # None /\ embeddings # None

\* one step of the retriever that starts with a provider attached and the
\* cache filled keeps both and runs no corpus embedding pass
ReuseStep ==
    CacheFilled =>
        /\ model' = model
        /\ embeddings' = embeddings
        /\ passLog' = passLog \/ passLog' = <<>>

\* C25: attaching the provider is idempotent and the cache is compute-once-
\* then-reuse: once a provider is attached and the cache is filled, any number
\* of further _attach_model and retrieve calls leave the attached provider and
\* the cache unchanged and never run the corpus embedding pass again.
C25_AttachIdempotentCacheReused == [][ReuseStep]_vars

\* a call that started with the cache filled went through _attach_model and
\* was answered by the local tier from that cache, with no pass
C25_Witness ==
    /\ LocalAnswered
    /\ depth = 0
    /\ passLog = <<>>
    /\ CacheFilled
    /\ CacheComplete
    /\ result.val # <<>>

-----------------------------------------------------------------------------
(* Two callers inside retrieve on the one global retriever                  *)
(*                                                                          *)
(* retriever.py:243-244 builds a single DocumentRetriever; every caller     *)
(* works on its model, documents and embeddings attributes.  A caller's     *)
(* step is one read or one write of an attribute (the interpreter switches  *)
(* threads between bytecodes, never inside an attribute load or store), and *)
(* the steps of the two callers interleave freely.  model.encode reads only *)
(* the texts it was handed, so a corpus embedding pass is the store of its  *)
(* result into self.embeddings.                                             *)

Callers == 1..2

RaceQueries == { <<"a">>, <<"A", " ", "b">> }

RaceCorpus ==
    << MkDoc(<<"1">>, <<"a">>, <<"a", " ", "b">>, <<"s", "1">>),
       MkDoc(<<"3">>, <<"c">>, <<"a", " ", " ", "a">>, <<"s", "3">>) >>

NoAnswer == [tier |-> "none", docs |-> <<>>]

IdleCall ==
    [pc |-> "idle", q |-> <<>>, kk |-> 1, nested |-> 0, saw |-> 0, ran |-> 0,
     used |-> None, out |-> NoAnswer]

RaceInit ==
    /\ globalModel = TheModel
    /\ model \in {None, TheModel}
    /\ documents = RaceCorpus
    /\ embeddings \in
         IF model # None THEN {None, Encode(CorpusTexts(documents))} ELSE {None}
    /\ pc = "idle"
    /\ query_text = <<>>
    /\ k = 1
    /\ depth = 0
    /\ result = NoResult
    /\ trace = <<>>
    /\ passLog = <<>>
    /\ LlmIdle
    /\ NormIdle
    /\ QueryIdle
    /\ calls = [c \in Callers |-> IdleCall]
    /\ loop = 0
    /\ inflight = <<>>

outsideRace == <<globalModel, documents, pc, query_text, k, depth, result,
                 trace, passLog, configVars, callVars, hfVars, normVars,
                 queryVars, loop, inflight>>

\* the call of caller c, changed as the record upd says
Moved(c, upd) ==
    [calls EXCEPT ![c] = [f \in DOMAIN calls[c] |->
                            IF f \in DOMAIN upd THEN upd[f] ELSE calls[c][f]]]

\* the keyword tier answers the call of caller c
ToKeyword(c) ==
    Moved(c, [pc |-> "done",
              out |-> [tier |-> "keyword",
                       docs |-> KeywordSearch(documents, calls[c].q,
                                              calls[c].kk)]])

\* caller c invokes retriever.retrieve(q, kk)
RaceCall(c) ==
    /\ calls[c].pc = "idle"
    /\ \E q \in RaceQueries, kk \in 1..MaxK :
         calls' = [calls EXCEPT ![c] =
                      [IdleCall EXCEPT !.pc = "attach", !.q = q, !.kk = kk]]
    /\ UNCHANGED <<model, embeddings>>
    /\ UNCHANGED outsideRace

\* _attach_model, lines 27-37: the model is attached when none is, and the
\* guard of the pass reads self.embeddings
RaceAttach(c) ==
    /\ calls[c].pc = "attach"
    /\ model' = IF globalModel # None /\ model = None THEN globalModel ELSE model
    /\ calls' =
         IF NeedsCorpusPass(globalModel, model', documents, embeddings)
         THEN Moved(c, [pc |-> "attach_pass", saw |-> calls[c].saw + 1])
         ELSE Moved(c, [pc |-> "check"])
    /\ UNCHANGED embeddings
    /\ UNCHANGED outsideRace

\* _attach_model, lines 38-44: the pass; its result is stored whole, and a
\* failure is logged and leaves the attribute as it is
RaceAttachPass(c) ==
    /\ calls[c].pc = "attach_pass"
    /\ \E ok \in BOOLEAN :
         IF ok
         THEN /\ embeddings' = Encode(CorpusTexts(documents))
              /\ calls' = Moved(c, [pc |-> "check", ran |-> calls[c].ran + 1])
         ELSE /\ UNCHANGED embeddings
              /\ calls' = Moved(c, [pc |-> "check"])
    /\ UNCHANGED model
    /\ UNCHANGED outsideRace

\* retrieve, lines 156-162
RaceCheck(c) ==
    /\ calls[c].pc = "check"
    /\ calls' =
         IF documents = <<>>
         THEN Moved(c, [pc |-> "done", out |-> [tier |-> "empty", docs |-> <<>>]])
         ELSE IF model = None THEN ToKeyword(c)
         ELSE Moved(c, [pc |-> "remote"])
    /\ UNCHANGED <<model, embeddings>>
    /\ UNCHANGED outsideRace

\* retrieve, lines 166-178: the remote vector search
RaceRemote(c) ==
    /\ calls[c].pc = "remote"
    /\ \E o \in {"unavailable", "failed", "rows"} :
         LET rows == MatchDocuments(documents, Embed(calls[c].q),
                                    MatchThreshold, calls[c].kk)
         IN  calls' =
               IF o = "rows" /\ rows # <<>>
               THEN Moved(c, [pc |-> "done",
                              out |-> [tier |-> "remote", docs |-> rows]])
               ELSE Moved(c, [pc |-> "local"])
    /\ UNCHANGED <<model, embeddings>>
    /\ UNCHANGED outsideRace

\* retrieve, lines 181-183: the query embedding and the test
\* `self.embeddings is not None`
RaceLocal(c) ==
    /\ calls[c].pc = "local"
    /\ \E ok \in BOOLEAN :
         calls' =
           IF ~ok THEN ToKeyword(c)
           ELSE IF embeddings # None THEN Moved(c, [pc |-> "dot"])
           ELSE Moved(c, [pc |-> "ondemand", saw |-> calls[c].saw + 1])
    /\ UNCHANGED <<model, embeddings>>
    /\ UNCHANGED outsideRace

\* retrieve, lines 185-203: self.embeddings is read once more for the product
\* with the query vector, and the best k documents are returned
RaceDot(c) ==
    /\ calls[c].pc = "dot"
    /\ \E ok \in BOOLEAN :
         calls' =
           IF ~ok \/ embeddings = None THEN ToKeyword(c)
           ELSE Moved(c, [pc |-> "done",
                          used |-> embeddings,
                          out |-> [tier |-> "local",
                                   docs |-> LocalSearch(documents, embeddings,
                                                        calls[c].q,
                                                        calls[c].kk)]])
    /\ UNCHANGED <<model, embeddings>>
    /\ UNCHANGED outsideRace

\* retrieve, lines 205-215: the on-demand pass stores its result whole and
\* the call re-enters retrieve; a failure gives the keyword result
RaceOnDemand(c) ==
    /\ calls[c].pc = "ondemand"
    /\ \E ok \in BOOLEAN :
         IF ok
         THEN /\ embeddings' = Encode(CorpusTexts(documents))
              /\ calls' = Moved(c, [pc |-> "attach",
                                    ran |-> calls[c].ran + 1,
                                    nested |-> calls[c].nested + 1])
         ELSE /\ UNCHANGED embeddings
              /\ calls' = ToKeyword(c)
    /\ UNCHANGED model
    /\ UNCHANGED outsideRace

\* the call of caller c has returned and the caller has taken the result
RaceReturn(c) ==
    /\ calls[c].pc = "done"
    /\ calls' = [calls EXCEPT ![c] = IdleCall]
    /\ UNCHANGED <<model, embeddings>>
    /\ UNCHANGED outsideRace

RaceNext ==
    \E c \in Callers :
        \/ RaceCall(c)
        \/ RaceAttach(c)
        \/ RaceAttachPass(c)
        \/ RaceCheck(c)
        \/ RaceRemote(c)
        \/ RaceLocal(c)
        \/ RaceDot(c)
        \/ RaceOnDemand(c)
        \/ RaceReturn(c)

SpecRace == RaceInit /\ [][RaceNext]_vars

\* one vector per document of the corpus, each the vector of that document's
\* content
CompleteEmbedding ==
    [kind |-> "ndarray",
     val |-> [i \in 1..Len(documents) |->
                Embed(Get(documents[i], "content", PyStr(<<>>)).val)]]

\* both calls in progress found the cache missing
BothSawMissing == \A c \in Callers : calls[c].saw > 0

\* C26: when two concurrent retrieve calls both found the embedding cache
\* missing, both may run the corpus embedding pass; the cache then holds one
\* complete corpus embedding (never a partial one or a mixture of two passes),
\* and a call that answers from the similarity search computed its result from
\* a complete embedding.
C26_RacingPassesLeaveCompleteCache ==
    BothSawMissing =>
        /\ embeddings \in {None, CompleteEmbedding}
        /\ (\E c \in Callers : calls[c].ran > 0) =>
               embeddings = CompleteEmbedding
        /\ \A c \in Callers :
              calls[c].out.tier = "local" =>
                  /\ calls[c].used = CompleteEmbedding
                  /\ calls[c].out.docs =
                        LocalSearch(documents, CompleteEmbedding, calls[c].q,
                                    calls[c].kk)

\* both callers found the cache missing, both ran the pass, and both have
\* answered from the similarity search
C26_Witness ==
    \A c \in Callers :
        /\ calls[c].saw > 0
        /\ calls[c].ran > 0
        /\ calls[c].pc = "done"
        /\ calls[c].out.tier = "local"

-----------------------------------------------------------------------------
(* The serving process                                                      *)
(*                                                                          *)
(* run.py starts one uvicorn process (no workers argument), which runs one  *)
(* event loop.  query_assistant is a coroutine (`async def`, query.py:30)   *)
(* and its body holds no await: the retriever and the LLM client are called *)
(* as plain functions, and they block in session.post(..., timeout=60),     *)
(* in model.encode and in time.sleep.  The event loop runs one coroutine    *)
(* until it awaits or returns, so a handler, once started, keeps the loop   *)
(* until it has returned its response.                                      *)

Requests == 1..2

AbsentRequest == [pc |-> "absent", attempt |-> 0, wait |-> 0, slept |-> 0]

ServerInit ==
    /\ ConfigInit
    /\ inflight = [r \in Requests |-> AbsentRequest]
    /\ loop = 0
    /\ calls = <<>>
    /\ QueryIdle
    /\ spc = "idle" /\ attempt = 0 /\ hfLog = <<>>
    /\ prompt_text = <<>>
    /\ retrieved_docs = PyList(<<>>)
    /\ image_context = None
    /\ hf_response = None
    /\ response = NoResult
    /\ globalModel = None /\ model = None /\ documents = <<>>
    /\ embeddings = None /\ pc = "idle" /\ query_text = <<>> /\ k = 1
    /\ depth = 0 /\ result = NoResult /\ trace = <<>> /\ passLog = <<>>
    /\ NormIdle

outsideServer == <<retrVars, configVars, callVars, hfVars, normVars,
                   queryVars, calls>>

\* a client's POST /api/query reaches the process: the server accepts it and
\* schedules the handler on the event loop
Arrive(r) ==
    /\ inflight[r].pc = "absent"
    /\ inflight' = [inflight EXCEPT ![r].pc = "queued"]
    /\ UNCHANGED loop
    /\ UNCHANGED outsideServer

\* the event loop, running no handler, starts the handler of request r
Dispatch(r) ==
    /\ loop = 0
    /\ inflight[r].pc = "queued"
    /\ loop' = r
    /\ inflight' = [inflight EXCEPT ![r].pc = "retrieve"]
    /\ UNCHANGED outsideServer

\* query.py:42: retriever.retrieve, with its calls of the embedding provider
\* and of the remote store; then synthesize_answer, which posts to the backend
\* unless demo mode or a missing key or model keeps it from doing so
ServeRetrieve(r) ==
    /\ loop = r
    /\ inflight[r].pc = "retrieve"
    /\ inflight' = [inflight EXCEPT ![r].pc =
                      IF ~DEMO_MODE /\ BackendConfigured(HF_API_KEY, HF_MODEL)
                      THEN "post" ELSE "respond"]
    /\ UNCHANGED loop
    /\ UNCHANGED outsideServer

\* llm.py:57-84: session.post returns or raises; a loading answer and an
\* exception are followed by time.sleep
ServePost(r) ==
    /\ loop = r
    /\ inflight[r].pc = "post"
    /\ \E outcome \in {"returned", "loading", "exception"} :
         LET cur == inflight[r]
         IN  inflight' = [inflight EXCEPT ![r] =
               CASE outcome = "returned" -> [cur EXCEPT !.pc = "respond"]
                 [] outcome = "loading" ->
                      [cur EXCEPT !.pc = "sleep",
                                  !.wait = 5 * (cur.attempt + 1)]
                 [] OTHER ->
                      [cur EXCEPT !.pc = "sleep",
                                  !.wait = 2 * (cur.attempt + 1)]]
    /\ UNCHANGED loop
    /\ UNCHANGED outsideServer

\* llm.py:75, 84: time.sleep returns, and the loop over range(3) goes on
ServeSleep(r) ==
    /\ loop = r
    /\ inflight[r].pc = "sleep"
    /\ inflight' = [inflight EXCEPT ![r] =
          [pc |-> IF LoopContinues(@.attempt + 1) THEN "post" ELSE "respond",
           attempt |-> @.attempt + 1,
           wait |-> 0,
           slept |-> @.slept + @.wait]]
    /\ UNCHANGED outsideServer
    /\ UNCHANGED loop

\* query.py:91-124: the handler returns its response and gives up the loop
ServeRespond(r) ==
    /\ loop = r
    /\ inflight[r].pc = "respond"
    /\ inflight' = [inflight EXCEPT ![r].pc = "done"]
    /\ loop' = 0
    /\ UNCHANGED outsideServer

\* the client has its response
Depart(r) ==
    /\ inflight[r].pc = "done"
    /\ inflight' = [inflight EXCEPT ![r] = AbsentRequest]
    /\ UNCHANGED loop
    /\ UNCHANGED outsideServer

\* the steps by which the handling of request r goes on towards its response
Progress(r) ==
    \/ Dispatch(r)
    \/ ServeRetrieve(r)
    \/ ServePost(r)
    \/ ServeSleep(r)
    \/ ServeRespond(r)

ServerNext ==
    \E r \in Requests :
        \/ Arrive(r)
        \/ Progress(r)
        \/ Depart(r)

SpecServer == ServerInit /\ [][ServerNext]_vars

\* request r is inside a blocking outbound call (the embedding provider or the
\* remote store during retrieval, the generative backend) or a backoff wait
InBlockingCallOrWait(r) == inflight[r].pc \in {"retrieve", "post", "sleep"}

\* request r has reached the process and has no response yet
Unanswered(r) == inflight[r].pc \notin {"absent", "done"}

\* C27: while one query is inside a blocking outbound call or a backoff wait,
\* every other query the process has received and not yet answered can take
\* its next step towards completion (a request's waits delay only that
\* request).
C27_WaitsDelayOnlyTheirRequest ==
    \A r, s \in Requests :
        (r # s /\ InBlockingCallOrWait(r) /\ Unanswered(s)) =>
            ENABLED Progress(s)

-----------------------------------------------------------------------------
(* The model-loading answer of the generative backend *)

\* the requests query_huggingface posted because the answer before was the
\* model-loading one
PollsAfterLoading ==
    { i \in 2..Len(hfLog) : hfLog[i - 1].outcome = "loading" }

\* query_huggingface has left its loop
LoopOver == spc \notin {"idle", "query", "post"}

-----------------------------------------------------------------------------
(* Remote vector searches issued by one retrieve call *)

\* the remote vector searches the call at hand has issued (a search that was
\* not available, with no store connected or no provider, was not issued)
RemoteSearches ==
    { i \in 1..Len(trace) :
        trace[i].tier = "remote" /\ trace[i].out # "unavailable" }

\* C29: within a single retrieve call the remote vector search is invoked at
\* most once; after its failure, and when the call needs the on-demand corpus
\* embedding pass, the call goes on to the local tier without a second remote
\* search.
C29_RemoteSearchAtMostOnce == Cardinality(RemoteSearches) <= 1

-----------------------------------------------------------------------------
(* What synthesize_answer makes of the backend's text *)

\* the backend was asked and returned a text, and synthesize_answer is over
BackendAnswered ==
    /\ Synthesized
    /\ ~DEMO_MODE
    /\ hf_response.kind = "str"

\* the text parses as a JSON object
IsStructuredObject(text) ==
    LET loaded == JsonLoads(text)
    IN  loaded.ok /\ loaded.val.kind = "dict"

RequiredFields == {"answer", "confidence", "actions", "sources"}

\* C30: when the backend returns a text that is not a structured object,
\* synthesize_answer returns that text verbatim as the answer, with confidence
\* 0.7, no actions, no sources and mode ai; when it returns a structured object
\* with answer, confidence, actions and sources, that object is returned with
\* mode ai.
C30_RawTextWrappedObjectReturned ==
    BackendAnswered =>
        LET text == hf_response.val
            loaded == JsonLoads(text)
        IN  /\ ~IsStructuredObject(text) =>
                 /\ response.kind = "dict"
                 /\ response.val.answer = PyStr(text)
                 /\ response.val.confidence = PyFloat(70)
                 /\ response.val.actions = PyList(<<>>)
                 /\ response.val.sources = PyList(<<>>)
                 /\ response.val.meta.val.mode = PyStr(LlmText.mode_ai)
            /\ (/\ IsStructuredObject(text)
                /\ RequiredFields \subseteq DOMAIN loaded.val.val) =>
                 /\ response.kind = "dict"
                 /\ \A f \in RequiredFields :
                       response.val[f] = loaded.val.val[f]
                 /\ response.val.meta.val.mode = PyStr(LlmText.mode_ai)

-----------------------------------------------------------------------------
(* Context snippets of the deterministic fallback *)

\* the document has a non-empty content or a non-empty snippet
HasContentOrSnippet(doc) ==
    \/ Truthy(Get(doc.val, "content", None))
    \/ Truthy(Get(doc.val, "snippet", None))

\* the documents among the first 3 handed in that have content or a snippet
DocumentsWithText ==
    { i \in 1..Min(3, Len(retrieved_docs.val)) :
         HasContentOrSnippet(retrieved_docs.val[i]) }

\* C31: in the deterministic fallback every one of the first 3 documents with
\* a non-empty content or a non-empty snippet contributes one context snippet,
\* so the confidence is that of the number of such documents, a document with
\* content and no snippet included.
C31_ContentCountsAsContextSnippet ==
    FromDeterministic =>
        /\ SnippetCount = Cardinality(DocumentsWithText)
        /\ response.val.confidence.val =
              Min(80, 40 + 10 * Cardinality(DocumentsWithText))

-----------------------------------------------------------------------------
(* Category of the deterministic answer *)

\* the template a deterministic answer was made from, told by its fixed text
AnswerTemplate(answer) ==
    LET T == LlmText
    IN  CASE HasPrefixAt(answer, 1, T.img_issue_pre) -> "visual_problem"
          [] HasPrefixAt(answer, 1, T.img_generic_pre) -> "visual"
          [] HasPrefixAt(answer, 1, T.irrigation_base) -> "irrigation"
          [] HasPrefixAt(answer, 1, T.pest_base) -> "pest"
          [] HasPrefixAt(answer, 1, T.planting_base) -> "planting"
          [] HasPrefixAt(answer, 1, T.market_base) -> "market"
          [] HasPrefixAt(answer, 1, T.generic_pre) -> "generic"
          [] answer = T.referral -> "referral"
          [] OTHER -> "none"

\* the lowercased query of the call at hand names one of the words
Names(words) == AnyIn(words, Lower(prompt_text))

\* the answer categories the query matches, in the order of the checks
MatchedAnswerCategories ==
    SelectSeq(<<"irrigation", "pest", "planting", "market">>,
              LAMBDA c : Names(LlmWords[c]))

\* C32: the deterministic answer template is the one of the first matching
\* category in the order: visual context with disease/pest terms, visual
\* context, irrigation/water terms, pest/disease terms, planting/sowing terms,
\* market/price terms, generic with snippets, referral.  A query matching
\* several categories gets the template of the earliest, and a query with a
\* visual context gets a visual-context template.
C32_FirstMatchingTemplate ==
    FromDeterministic =>
        AnswerTemplate(response.val.answer.val) =
            IF Truthy(image_context)
            THEN (IF Names(LlmWords.visual_problem) THEN "visual_problem"
                  ELSE "visual")
            ELSE IF MatchedAnswerCategories # <<>>
            THEN Head(MatchedAnswerCategories)
            ELSE IF SnippetCount > 0 THEN "generic"
            ELSE "referral"

\* "pest problem after I water and plant" without a visual context matches
\* irrigation, pest and planting, and the answer is the irrigation one
C32_Witness ==
    /\ FromDeterministic
    /\ image_context = None
    /\ MatchedAnswerCategories = <<"irrigation", "pest", "planting">>
    /\ AnswerTemplate(response.val.answer.val) = "irrigation"

-----------------------------------------------------------------------------
(* Actions of the deterministic fallback *)

\* the action categories the call at hand matches, in the order of the checks
MatchedActionCategories ==
    SelectSeq(<<"problem", "irrigation", "planting", "market">>,
              LAMBDA c :
                 IF c = "problem"
                 THEN Truthy(image_context) \/ Names(LlmWords.act_problem)
                 ELSE Names(LlmWords["act_" \o c]))

RECURSIVE ListsOf(_)
ListsOf(cats) ==
    IF cats = <<>> THEN <<>>
    ELSE LlmActions[Head(cats)] \o ListsOf(Tail(cats))

\* C33: the deterministic actions are the first 3 items of the concatenation,
\* in the order visual-context-or-problem, irrigation, planting, market, of the
\* 3-item lists of the matched categories, or the generic 3-item default list
\* when none matches; the list returned always has exactly 3 items.
C33_ActionsFirstThreeOfMatched ==
    FromDeterministic =>
        LET all == IF MatchedActionCategories = <<>> THEN LlmActions.default
                   ELSE ListsOf(MatchedActionCategories)
        IN  /\ Len(all) = 3 * Max(1, Len(MatchedActionCategories))
            /\ response.val.actions.kind = "list"
            /\ Len(response.val.actions.val) = 3
            /\ \A i \in 1..3 : response.val.actions.val[i] = PyStr(all[i])

\* "pest problem after I water and plant" matches the problem, irrigation and
\* planting categories: nine items, of which the three problem items are
\* returned
C33_Witness ==
    /\ FromDeterministic
    /\ image_context = None
    /\ MatchedActionCategories = <<"problem", "irrigation", "planting">>
    /\ Len(response.val.actions.val) = 3
    /\ response.val.actions.val[1] = PyStr(LlmActions.problem[1])

-----------------------------------------------------------------------------
(* Answer and actions of one deterministic response *)

\* the action list that goes with an answer category
ActionsOfTemplate(t) ==
    CASE t = "irrigation" -> LlmActions.irrigation
      [] t = "pest" -> LlmActions.problem
      [] t = "planting" -> LlmActions.planting
      [] t = "market" -> LlmActions.market
      [] OTHER -> LlmActions.default

\* C39: in every deterministic response to a query without visual context the
\* actions belong to the category of the answer: with the irrigation,
\* pest/disease, planting or market answer go that category's three actions,
\* and the generic default actions go only with the generic or the referral
\* answer.
C39_ActionsMatchAnswerCategory ==
    (FromDeterministic /\ ~Truthy(image_context)) =>
        LET t == AnswerTemplate(response.val.answer.val)
            acts == response.val.actions.val
        IN  /\ t \in {"irrigation", "pest", "planting", "market"} =>
                 acts = [i \in 1..3 |-> PyStr(ActionsOfTemplate(t)[i])]
            /\ acts = [i \in 1..3 |-> PyStr(LlmActions.default[i])] =>
                 t \in {"generic", "referral"}

-----------------------------------------------------------------------------
(* Sources rebuilt by ensure_response_structure *)

\* the candidate handed to ensure_response_structure came with a sequence of
\* sources
GivenSourceList ==
    /\ passes = 1
    /\ "sources" \in DOMAIN given.val
    /\ given.val.sources.kind = "list"

\* the positions of the given sources that hold a mapping
GivenMappings ==
    { i \in 1..Len(given.val.sources.val) :
         given.val.sources.val[i].kind = "dict" }

\* C34 as stated: when sources is a sequence, every element of it becomes one
\* entry, so the sources of the output have the length and the order of the
\* input.
C34_EverySourceElementKept ==
    GivenSourceList =>
        Len(normalized.val.sources.val) = Len(given.val.sources.val)

\* C34: when sources is a sequence, every element of it that is a mapping is
\* coerced to one {title, url, snippet} entry of texts (title defaulting to
\* "Agricultural Resource", url and snippet to the empty text), in the order of
\* the input; the elements that are not mappings are left out, so the output
\* has as many entries as the input has mappings.
C34_MappingSourcesCoercedInOrder ==
    GivenSourceList =>
        LET src == given.val.sources.val
            out == normalized.val.sources.val
            nth(j) == CHOOSE i \in GivenMappings :
                         Cardinality({ h \in GivenMappings : h <= i }) = j
            text(v) == StrOf(v)
        IN  /\ Len(out) = Cardinality(GivenMappings)
            /\ \A j \in 1..Len(out) :
                  LET m == src[nth(j)].val
                      e == out[j].val
                  IN  /\ DOMAIN e = {"title", "url", "snippet"}
                      /\ e.title = PyStr(IF "title" \in DOMAIN m
                                         THEN text(m.title)
                                         ELSE QueryText.default_title)
                      /\ e.url = PyStr(IF "url" \in DOMAIN m
                                       THEN text(m.url) ELSE <<>>)
                      /\ e.snippet = PyStr(IF "snippet" \in DOMAIN m
                                           THEN text(m.snippet) ELSE <<>>)

\* the sources [{title: "t"}, "x", {url: "u"}]: the text is left out and the
\* two mappings become entries in their order, with the defaults filled in
C34_Witness ==
    /\ GivenSourceList
    /\ Len(given.val.sources.val) = 3
    /\ GivenMappings = {1, 3}
    /\ Len(normalized.val.sources.val) = 2
    /\ normalized.val.sources.val[1].val.title = PyStr(<<"t">>)
    /\ normalized.val.sources.val[2].val.url = PyStr(<<"u">>)
    /\ normalized.val.sources.val[2].val.title =
          PyStr(QueryText.default_title)

-----------------------------------------------------------------------------
(* Documents handed to the synthesizer *)

\* C35: every document that retrieve returns, from any tier, and that is
\* handed to the synthesizer has a non-empty content or a non-empty snippet: a
\* corpus document lacking both never appears in a retrieve result.
C35_RetrievedDocumentsHaveText ==
    /\ (Finished /\ result.kind = "list") =>
          \A i \in 1..Len(result.val) : HasContentOrSnippet(PyDict(result.val[i]))
    /\ spc # "idle" =>
          \A i \in 1..Len(retrieved_docs.val) :
              HasContentOrSnippet(retrieved_docs.val[i])

-----------------------------------------------------------------------------
(* The corpus across retrieve calls *)

\* no stored document carries a similarity
NoSimilarityStored ==
    \A i \in 1..Len(documents) : "similarity" \notin DOMAIN documents[i]

-----------------------------------------------------------------------------
(* Failures of synthesis and of retrieval in query_assistant *)

StagesTaken == { stages[i] : i \in 1..Len(stages) }

\* what synthesize_answer gave for this request
SynthesisResult ==
    SynthesizeAnswer(DEMO_MODE, HF_MODEL, hf_response, prompt_text,
                     retrieved_docs, image_context)

\* synthesize_answer was called for this request and raised, or returned a
\* response whose answer is empty
SynthesisFailedOrEmpty ==
    /\ "synthesize" \in StagesTaken
    /\ \/ IsRaise(SynthesisResult)
       \/ ~Truthy(Get(SynthesisResult.val, "answer", None))

\* C37: whenever synthesize_answer raises or returns a response whose answer
\* is empty, the caller receives the enhanced fallback (confidence 0.6, mode
\* fallback, exactly 3 actions, one source) and not the emergency response; and
\* when retrieval alone fails, the request goes on with an empty document list
\* and does not reach the emergency path.
C37_SynthesisFailureGivesEnhancedFallback ==
    (qpc = "replied" /\ reply.kind # "http_error") =>
        /\ SynthesisFailedOrEmpty =>
              /\ reply.kind = "dict"
              /\ origin = "enhanced"
              /\ reply.val.confidence = PyFloat(60)
              /\ reply.val.meta.val.mode = PyStr(LlmText.mode_fallback)
              /\ Len(reply.val.actions.val) = 3
              /\ Len(reply.val.sources.val) = 1
              /\ ~IsEmergency(reply, request.lang)
              /\ "emergency" \notin StagesTaken
        /\ raisedAt = {"retrieval"} =>
              /\ retrieved_docs = PyList(<<>>)
              /\ reply.kind = "dict"
              /\ ~IsEmergency(reply, request.lang)
              /\ "emergency" \notin StagesTaken

\* retrieval raised, then synthesize_answer raised on the backend's text, and
\* the caller has the enhanced fallback
C37_Witness ==
    /\ qpc = "replied"
    /\ raisedAt = {"retrieval", "synthesis"}
    /\ IsRaise(SynthesisResult)
    /\ origin = "enhanced"
    /\ reply.kind = "dict"
    /\ reply.val.confidence = PyFloat(60)
    /\ Len(reply.val.actions.val) = 3

-----------------------------------------------------------------------------
(* Refusal of an empty query *)

\* the text of the request is empty or holds only whitespace
OnlyWhitespace(text) == \A i \in 1..Len(text) : IsSpace(text[i])

\* C38: a query whose text is empty or only whitespace is refused with HTTP
\* status 400 before any retrieval, synthesis or persistence, and the caller
\* receives that refusal, not the emergency answer; no other query is refused.
C38_BlankQueryRefusedWith400 ==
    qpc = "replied" =>
        /\ OnlyWhitespace(request.text) =>
              /\ reply = HttpError(400)
              /\ stages = <<"validate">>
              /\ raisedAt = {}
              /\ origin = "none"
        /\ reply.kind = "http_error" => OnlyWhitespace(request.text)

\* a query of one space has been refused at the validation step
C38_Witness ==
    /\ qpc = "replied"
    /\ request.text = <<" ">>
    /\ reply = HttpError(400)
    /\ stages = <<"validate">>

=============================================================================
